---- MODULE Spec2Model ----
(***************************************************************************)
(* Model of the order synchronisation of pull-resta-order-details:         *)
(*   - OrderTrackerServiceV2 (src/src/services/order_tracker_v2.py): the   *)
(*     per-restaurant checkpoint and the process/skip decision;            *)
(*   - OrderSyncApplication._process_restaurant_orders (src/main.py): the  *)
(*     page walk over the newest-first order list of one restaurant;       *)
(*   - OrderSyncApplication._process_order / _process_etl (src/main.py).   *)
(*                                                                         *)
(* Dates are naturals.  SentinelDate stands for datetime(1900, 1, 1) and   *)
(* Date2020 for datetime(2020, 1, 1); every order date is above the        *)
(* sentinel.  Order ids are positive naturals, 0 is the sentinel id.       *)
(***************************************************************************)
EXTENDS Integers, Sequences, FiniteSets, TLC

\* ---------------------------------------------------------------- bounds
\* orders already synced in the pre-synced initial state
History == 11
\* orders that may arrive at the API during a run
MaxNew == 2
\* config.api.page_size
PageSize == 5
\* failures in a run: page errors, data-less responses, failed detail
\* fetches, failed operational syncs and failed ETL runs
MaxFaults == 2
\* page walks in a run
MaxWalks == 2
\* range of the arguments of direct tracker calls (TrackerSpec)
MaxArg == 2
\* cap of total_orders_synced in TrackerSpec
MaxTotal == 3
\* readings of datetime.now() in TrackerSpec: 0..MaxClock
MaxClock == 1
\* orders of the restaurant in EtlSpec
MaxOrders == 3
\* calls of process_order_dimensions_and_facts in EtlSpec
MaxEtlCalls == 3
\* database errors in EtlSpec
MaxEtlFaults == 1
\* names the restaurant takes: 1..MaxName
MaxName == 2
\* times of day of the schedule: 0..MaxTime, one unit standing for a second
MaxTime == 3
\* length of a month in days (a calendar month has 28 to 31)
DaysInMonth == 8
\* active days of a schedule: at most MaxActive of the seven
MaxActive == 2
\* units of time in an hour, the longest sleep outside the window
HourLength == 1
\* the longest a restaurant's sync, or a sleep between cycles, takes
MaxElapse == 2
\* cycles of the main loop
MaxCycles == 2
\* restaurants in the credential list
MaxRestaurants == 2
\* an average order value is known to 1 / (2 * MaxHalfParts + 1) of a cent
MaxHalfParts == 2
\* order counts of a customer: 0..MaxSegOrders
MaxSegOrders == 25
\* averages within MaxAvgDelta parts of a cent of the VIP threshold
MaxAvgDelta == 6
\* the time grid: hours of a day (24 in the source), minutes of an hour,
\* days of a month, the last day a caller's timestamp falls on, the rows of
\* one saved batch (1000 in the source), the days of the lookup's forward
\* horizon (30) and of the initial coverage after now (365), and the
\* failures of a save
hours_per_day == 2
MaxMinute == 1
MonthLength == 2
MaxGridDay == 5
batch_size == 3
HorizonDays == 1
YearDays == 2
MaxBatches == 4
MaxGridFaults == 1
\* orders named in direct calls of the ledger: 1..MaxLedgerOrder, in lists
\* of at most MaxListLen ids
MaxLedgerOrder == 2
MaxListLen == 2
\* orders of a restaurant on one day in the daily rollup
MaxDayOrders == 2

\* ------------------------------------------------------ program constants
stop_threshold == 10
SentinelId == 0
SentinelDate == 0
Date2020 == 2
\* Python's None for the integer-valued locals of the walk
NoneVal == -1

VARIABLES
  \* --- database
  tracker,                \* the OrderSyncTracker row of the restaurant
  orderTable,             \* ids with a row in the operational Order table
  factTable,              \* ids with a row in FactOrders
  \* --- order source (API)
  api,                    \* listing, first element = page 1, first row
  orderDate,              \* id -> creation date
  faults,                 \* failures produced so far
  arrivals,               \* orders that arrived at the API during the run
  \* --- application
  is_running,             \* ApplicationState.is_running
  skip_duplicate_checks,  \* config.sync.skip_duplicate_checks
  pc,                     \* position of _process_restaurant_orders
  walks,                  \* page walks started so far
  checkpoint,             \* local: result of get_sync_checkpoint
  page_index,
  orders_data,            \* local: response['Data'] of the current page
  idx,                    \* position of the for loop in orders_data
  consecutive_old_orders,
  checkpoint_reached,
  most_recent_order_id,
  most_recent_order_date,
  new_orders_synced,      \* stats['new_orders_synced']
  \* --- history variables (observations, not program state)
  etl_ok,                 \* ids whose process_order_dimensions_and_facts committed
  syncedInWalk,           \* ids counted in new_orders_synced by this walk
  firstSeenNew,           \* ids that were newer than the checkpoint when first seen
  seen,                   \* ids some walk has seen in a page
  summary,                \* what the walk did with the last order summary
  walkStart,              \* tracker row right after get_sync_checkpoint
  walkClean,              \* no failure, fault, arrival or cancellation in this walk
  cancelSeen,             \* a loop test of this walk found is_running cleared
  lastReturn,             \* how the last walk returned
  \* --- direct tracker calls (TrackerSpec)
  call,                   \* the last direct call and its result
  clock,                  \* datetime.now()
  errors,                 \* stats['errors'] of the walk
  \* --- warehouse ETL (EtlSpec)
  store,                  \* the committed rows of the warehouse tables
  session,                \* the rows as the SQLAlchemy session sees them
  nextKey,                \* the next identity value of the surrogate keys
  opOrders,               \* order ids in the operational Order table
  restaurant_name,        \* Restaurant.name of the operational row
  customer_name,          \* Customer.full_name of the operational row
  ep,                     \* position of process_order_dimensions_and_facts
  cur,                    \* local: order.id of the call
  restaurant_key,         \* local
  customer_key,           \* local
  order_key,              \* local
  etlCalls,               \* calls started so far
  etlFaults,              \* database errors produced so far
  callStart,              \* history: the committed rows when the call started
  outcome,                \* history: how the last finished call ended
  \* --- schedule window (ScheduleSpec)
  schedule,               \* ScheduleManager.schedule
  now,                    \* datetime.now()
  schedCall,              \* the last direct call of the manager and its result
  \* --- main loop (RunSpec)
  run_pc,                 \* position of OrderSyncApplication.run
  cycle_count,
  restaurant_index,       \* position of the for loop in restaurant_users
  runObs,                 \* history: what the current cycle has done
  \* --- customer segment (SegmentSpec)
  segCall,                \* the last call of _determine_customer_segment
  \* --- time grid (GridSpec)
  grid,                   \* the committed rows of dim_datetime
  gridKey,                \* the next identity value of datetime_key
  gridCall,               \* the last call of the service and its result
  gridFaults,             \* batches whose save failed so far
  \* --- direct calls of the ledger and of the daily rollup
  ledgerTable,            \* fact_processed_orders: the rows of each (order_id, fact_type)
  ledgerCall,             \* the last call of OrderProcessingTracker and its result
  rollupCall              \* the last call of _calculate_daily_metrics and its result

etlVars == << store, session, nextKey, opOrders, restaurant_name, customer_name, ep, cur,
              restaurant_key, customer_key, order_key, etlCalls, etlFaults,
              callStart, outcome >>

scheduleVars == << schedule, now, schedCall >>

runVars == << run_pc, cycle_count, restaurant_index, runObs >>
segmentVars == << segCall >>
gridVars == << grid, gridKey, gridCall, gridFaults >>
directVars == << ledgerTable, ledgerCall, rollupCall >>

\* the state of the components modelled after the ETL
laterVars == << scheduleVars, runVars, segmentVars, gridVars, directVars >>

vars == << tracker, orderTable, factTable, api, orderDate, faults, arrivals, is_running,
           skip_duplicate_checks, pc, walks, checkpoint, page_index, orders_data, idx,
           consecutive_old_orders, checkpoint_reached, most_recent_order_id,
           most_recent_order_date, new_orders_synced, etl_ok, syncedInWalk,
           firstSeenNew, seen, summary, walkStart, walkClean, cancelSeen,
           lastReturn, call, clock, errors, etlVars, laterVars >>

dbVars == << tracker, orderTable, factTable >>
apiVars == << api, orderDate, faults, arrivals >>
localVars == << walks, checkpoint, page_index, orders_data, idx, consecutive_old_orders,
                checkpoint_reached, most_recent_order_id, most_recent_order_date,
                new_orders_synced >>
histVars == << etl_ok, syncedInWalk, firstSeenNew, seen, summary, walkStart,
               walkClean, cancelSeen, lastReturn >>

\* ------------------------------------------------------------ the tracker
NoTracker ==
  [exists |-> FALSE, last_order_id |-> 0, last_order_date |-> 0,
   last_sync_date |-> 0, total_orders_synced |-> 0]

NoCheckpoint == [some |-> FALSE, id |-> 0, date |-> 0]

\* the row get_sync_checkpoint adds when none exists
NewTrackerRow ==
  [exists |-> TRUE, last_order_id |-> SentinelId,
   last_order_date |-> SentinelDate, last_sync_date |-> clock,
   total_orders_synced |-> 0]

\* get_sync_checkpoint returning the sentinel pointer instead of None
get_sync_checkpoint_sentinel(tr) ==
  IF tr.exists
    THEN [some |-> TRUE, id |-> tr.last_order_id, date |-> tr.last_order_date]
    ELSE [some |-> TRUE, id |-> SentinelId, date |-> SentinelDate]

\* get_sync_checkpoint: the value returned
get_sync_checkpoint(tr) ==
  IF tr.exists
    THEN [some |-> TRUE, id |-> tr.last_order_id, date |-> tr.last_order_date]
    ELSE NoCheckpoint

\* get_sync_checkpoint: the tracker row after the call
get_sync_checkpoint_row(tr) ==
  IF tr.exists THEN tr ELSE NewTrackerRow

\* update_sync_checkpoint without the comparison of lines 59-60
update_sync_checkpoint_unguarded(tr, last_order_id, last_order_date, orders_synced_count) ==
  [tr EXCEPT !.last_order_id = last_order_id,
             !.last_order_date = last_order_date,
             !.last_sync_date = clock,
             !.total_orders_synced = @ + orders_synced_count]

\* update_sync_checkpoint stamping and counting also when it does not apply
update_sync_checkpoint_stamping(tr, last_order_id, last_order_date, orders_synced_count) ==
  IF last_order_date > tr.last_order_date
     \/ (last_order_date = tr.last_order_date /\ last_order_id > tr.last_order_id)
    THEN [tr EXCEPT !.last_order_id = last_order_id,
                    !.last_order_date = last_order_date,
                    !.last_sync_date = clock,
                    !.total_orders_synced = @ + orders_synced_count]
    ELSE [tr EXCEPT !.last_sync_date = clock,
                    !.total_orders_synced = @ + orders_synced_count]

\* update_sync_checkpoint on an existing row
update_sync_checkpoint(tr, last_order_id, last_order_date, orders_synced_count) ==
  IF last_order_date > tr.last_order_date
     \/ (last_order_date = tr.last_order_date /\ last_order_id > tr.last_order_id)
    THEN [tr EXCEPT !.last_order_id = last_order_id,
                    !.last_order_date = last_order_date,
                    !.last_sync_date = clock,
                    !.total_orders_synced = @ + orders_synced_count]
    ELSE tr

\* reset_checkpoint clearing the count of synced orders as well
reset_checkpoint_zeroing(tr) ==
  IF tr.exists
    THEN [tr EXCEPT !.last_order_id = SentinelId,
                    !.last_order_date = SentinelDate,
                    !.last_sync_date = clock,
                    !.total_orders_synced = 0]
    ELSE tr

\* reset_checkpoint: the pointer of an existing row is set to the sentinel;
\* without a row (NoResultFound) a warning is logged and nothing is written
reset_checkpoint(tr) ==
  IF tr.exists
    THEN [tr EXCEPT !.last_order_id = SentinelId,
                    !.last_order_date = SentinelDate,
                    !.last_sync_date = clock]
    ELSE tr

\* should_process_order with >= in the comparison of the ids
should_process_order_geq(order_id, order_date, cp) ==
  IF ~cp.some THEN TRUE
  ELSE IF order_date > cp.date THEN TRUE
  ELSE IF order_date = cp.date /\ order_id >= cp.id THEN TRUE
  ELSE FALSE

\* should_process_order(order_id, order_date, checkpoint)
should_process_order(order_id, order_date, cp) ==
  IF ~cp.some THEN TRUE
  ELSE IF order_date > cp.date THEN TRUE
  ELSE IF order_date = cp.date /\ order_id > cp.id THEN TRUE
  ELSE FALSE

\* ------------------------------------------------- lexicographic (date, id)
LexLess(d1, i1, d2, i2) == d1 < d2 \/ (d1 = d2 /\ i1 < i2)
LexLeq(d1, i1, d2, i2) == LexLess(d1, i1, d2, i2) \/ (d1 = d2 /\ i1 = i2)

\* ------------------------------------------------------- the order source
Min(a, b) == IF a < b THEN a ELSE b

\* RestaAPI.get_orders_list: the rows of page p of the listing
get_orders_list(p) ==
  SubSeq(api, (p - 1) * PageSize + 1, Min(p * PageSize, Len(api)))

InsertAt(s, k, e) == SubSeq(s, 1, k - 1) \o << e >> \o SubSeq(s, k, Len(s))

Ids == 1..(History + MaxNew)

NoSummary ==
  [id |-> 0, skipped |-> FALSE, fetched |-> FALSE, attempts |-> 0, new |-> FALSE,
   inOrderTable |-> FALSE, inFactTable |-> FALSE, returned |-> "none"]

NoCall ==
  [op |-> "none", id |-> 0, date |-> 0, count |-> 0, cp |-> NoCheckpoint,
   result |-> FALSE, before |-> NoTracker]

\* The walk's locals before a walk (values of lines 274-281)
LocalsInit ==
  /\ page_index = 1
  /\ orders_data = << >>
  /\ idx = 1
  /\ consecutive_old_orders = 0
  /\ checkpoint_reached = FALSE
  /\ most_recent_order_id = NoneVal
  /\ most_recent_order_date = NoneVal
  /\ new_orders_synced = 0

\* lines 274-281 at the start of a walk
LocalsReset ==
  /\ page_index' = 1
  /\ orders_data' = << >>
  /\ idx' = 1
  /\ consecutive_old_orders' = 0
  /\ checkpoint_reached' = FALSE
  /\ most_recent_order_id' = NoneVal
  /\ most_recent_order_date' = NoneVal
  /\ new_orders_synced' = 0

\* ------------------------------------------------ the warehouse at rest
\* the warehouse tables without rows
EmptyStore ==
  [dimRestaurant |-> {}, dimCustomer |-> {}, dimPromotion |-> {},
   dimPaymentMethod |-> {}, factOrders |-> {}, factPayments |-> {}, factCustomerMetrics |-> {},
   ledger |-> {}, factRestaurantMetrics |-> {}]

\* no call of process_order_dimensions_and_facts is in progress
EtlLocalsIdle ==
  /\ ep = "idle"
  /\ cur = 0
  /\ restaurant_key = NoneVal
  /\ customer_key = NoneVal
  /\ order_key = NoneVal

\* the ETL is not exercised: an empty warehouse, no call
EtlIdle ==
  /\ store = EmptyStore
  /\ session = EmptyStore
  /\ nextKey = 1
  /\ opOrders = {}
  /\ restaurant_name = 1
  /\ customer_name = 1
  /\ EtlLocalsIdle
  /\ etlCalls = 0
  /\ etlFaults = 0
  /\ callStart = EmptyStore
  /\ outcome = "none"

\* ------------------------------------------------ the later components at rest
NoSchedCall == [op |-> "none", raises |-> "none", result |-> 0]

\* the schedule manager is not exercised: a window open all week, no call
ScheduleIdle ==
  /\ schedule = [start_time |-> 0, end_time |-> MaxTime, active_days |-> 1..7]
  /\ now = [weekday |-> 0, day |-> 1, time |-> 0]
  /\ schedCall = NoSchedCall

NoRunObs == [outside |-> FALSE, started |-> 0, within |-> TRUE]

\* run() has not been entered
RunIdle ==
  /\ run_pc = "startup"
  /\ cycle_count = 0
  /\ restaurant_index = 1
  /\ runObs = NoRunObs

NoSegCall == [total_orders |-> 0, avg_order_value |-> 0, result |-> "none"]

SegmentIdle == segCall = NoSegCall

\* Python's None for a datetime
NoDatetime == [day |-> NoneVal, hour |-> 0, minute |-> 0]

NoGridCall ==
  [op |-> "none", dt |-> NoDatetime, raised |-> FALSE, result |-> NoneVal,
   generated |-> 0, skipped |-> 0]

\* the time grid is not exercised: no row, no call
GridIdle ==
  /\ grid = {}
  /\ gridKey = 1
  /\ gridCall = NoGridCall
  /\ gridFaults = 0

NoLedgerCall == [op |-> "none", order_ids |-> << >>, fact_type |-> "none", result |-> FALSE]

NoRollupCall ==
  [hours |-> << >>, total_orders |-> 0, before_peak_orders |-> 0, peak_orders |-> 0,
   after_peak_orders |-> 0]

\* the ledger and the rollup are not exercised directly
DirectIdle ==
  /\ ledgerTable = << >>
  /\ ledgerCall = NoLedgerCall
  /\ rollupCall = NoRollupCall

LaterIdle ==
  /\ ScheduleIdle
  /\ RunIdle
  /\ SegmentIdle
  /\ GridIdle
  /\ DirectIdle

\* Either a fresh installation (h = 0) or one whose first History orders,
\* ids 1..History created on consecutive dates, were all synced by an
\* earlier walk, which left the checkpoint on the newest of them.  The
\* forced-backfill flag is explored on the fresh installation.
Init ==
  /\ \E h \in {0, History} :
       /\ skip_duplicate_checks \in IF h = 0 THEN BOOLEAN ELSE {FALSE}
       /\ api = [i \in 1..h |-> h + 1 - i]
       /\ orderDate = [i \in Ids |-> IF i <= h THEN Date2020 + i - 1 ELSE 0]
       /\ orderTable = 1..h
       /\ factTable = 1..h
       /\ etl_ok = 1..h
       /\ seen = 1..h
       /\ tracker = IF h = 0 THEN NoTracker
                    ELSE [exists |-> TRUE, last_order_id |-> h,
                          last_order_date |-> Date2020 + h - 1,
                          last_sync_date |-> 0,
                          total_orders_synced |-> h]
  /\ faults = 0
  /\ arrivals = 0
  /\ is_running = TRUE
  /\ pc = "idle"
  /\ walks = 0
  /\ checkpoint = NoCheckpoint
  /\ LocalsInit
  /\ syncedInWalk = {}
  /\ firstSeenNew = {}
  /\ summary = NoSummary
  /\ walkStart = NoTracker
  /\ walkClean = TRUE
  /\ cancelSeen = FALSE
  /\ lastReturn = "none"
  /\ call = NoCall
  /\ clock = 0
  /\ errors = << >>
  /\ EtlIdle
  /\ LaterIdle

\* ------------------------------------------------------------ environment
\* A customer places an order: it gets the next id and a creation date not
\* before the newest listed one.  The listing is by date, newest first; the
\* place of an order among orders of the same date is the API's choice.
\* The walk reads the listing only when it fetches a page, so an arrival
\* while the walk is inside a page acts as one before the next page fetch.
NewOrder ==
  /\ arrivals < MaxNew
  /\ pc \in {"idle", "page"}
  /\ LET o == Len(api) + 1
         lastDate == IF api = << >> THEN Date2020 - 1 ELSE orderDate[Head(api)]
     IN \E d \in {lastDate, lastDate + 1} :
          \E k \in IF api # << >> /\ d = lastDate THEN {1, 2} ELSE {1} :
            /\ api' = InsertAt(api, k, o)
            /\ orderDate' = [orderDate EXCEPT ![o] = d]
  /\ arrivals' = arrivals + 1
  /\ walkClean' = (walkClean /\ pc = "idle")
  /\ UNCHANGED << dbVars, faults, is_running, skip_duplicate_checks, pc, localVars,
                  etl_ok, syncedInWalk, firstSeenNew, seen, summary, walkStart,
                  cancelSeen, lastReturn, call, clock, errors, etlVars, laterVars >>

\* ApplicationState.initiate_shutdown, run by the signal handler
initiate_shutdown ==
  /\ is_running
  /\ is_running' = FALSE
  /\ UNCHANGED << dbVars, apiVars, skip_duplicate_checks, pc, localVars, histVars,
                  call, clock, errors, etlVars, laterVars >>

\* The process is started again after a shutdown (ApplicationState.__init__)
Restart ==
  /\ ~is_running
  /\ pc = "idle"
  /\ is_running' = TRUE
  /\ UNCHANGED << dbVars, apiVars, skip_duplicate_checks, pc, localVars, histVars,
                  call, clock, errors, etlVars, laterVars >>

\* --------------------------------------------- _process_restaurant_orders
\* lines 252-281: read the checkpoint, initialise the locals
StartWalk ==
  /\ pc = "idle"
  /\ is_running
  /\ walks < MaxWalks
  /\ walks' = walks + 1
  /\ checkpoint' = get_sync_checkpoint(tracker)
  /\ tracker' = get_sync_checkpoint_row(tracker)
  /\ LocalsReset
  /\ pc' = "page"
  /\ syncedInWalk' = {}
  /\ summary' = NoSummary
  /\ walkStart' = tracker'
  /\ walkClean' = TRUE
  /\ cancelSeen' = FALSE
  /\ lastReturn' = "none"
  /\ errors' = << >>
  /\ UNCHANGED << orderTable, factTable, apiVars, is_running, skip_duplicate_checks,
                  etl_ok, firstSeenNew, seen, call, clock, etlVars, laterVars >>

\* line 283: the while test fails
WalkCancelled ==
  /\ pc = "page"
  /\ ~is_running
  /\ pc' = "final"
  /\ cancelSeen' = TRUE
  /\ walkClean' = FALSE
  /\ UNCHANGED << dbVars, apiVars, is_running, skip_duplicate_checks, localVars,
                  etl_ok, syncedInWalk, firstSeenNew, seen, summary, walkStart,
                  lastReturn, call, clock, errors, etlVars, laterVars >>

\* lines 292, 468-472: get_orders_list raises
PageError ==
  /\ pc = "page"
  /\ is_running
  /\ faults < MaxFaults
  /\ faults' = faults + 1
  /\ page_index' = page_index + 1
  /\ errors' = Append(errors, << "page", page_index >>)
  /\ walkClean' = FALSE
  /\ UNCHANGED << dbVars, api, orderDate, arrivals, is_running, skip_duplicate_checks,
                  pc, walks, checkpoint, orders_data, idx, consecutive_old_orders,
                  checkpoint_reached, most_recent_order_id, most_recent_order_date,
                  new_orders_synced, etl_ok, syncedInWalk, firstSeenNew, seen,
                  summary, walkStart, cancelSeen, lastReturn, call, clock, etlVars, laterVars >>

\* lines 294-296: a response without 'Data'
PageNoData ==
  /\ pc = "page"
  /\ is_running
  /\ faults < MaxFaults
  /\ faults' = faults + 1
  /\ pc' = "final"
  /\ walkClean' = FALSE
  /\ UNCHANGED << dbVars, api, orderDate, arrivals, is_running, skip_duplicate_checks,
                  localVars, etl_ok, syncedInWalk, firstSeenNew, seen, summary,
                  walkStart, cancelSeen, lastReturn, call, clock, errors, etlVars, laterVars >>

\* lines 300-302: an empty page
PageEmpty ==
  /\ pc = "page"
  /\ is_running
  /\ get_orders_list(page_index) = << >>
  /\ pc' = "final"
  /\ UNCHANGED << dbVars, apiVars, is_running, skip_duplicate_checks, localVars,
                  histVars, call, clock, errors, etlVars, laterVars >>

\* lines 298-309: a page with orders
PageFetched ==
  /\ pc = "page"
  /\ is_running
  /\ get_orders_list(page_index) # << >>
  /\ orders_data' = get_orders_list(page_index)
  /\ idx' = 1
  /\ pc' = "order"
  /\ UNCHANGED << dbVars, apiVars, is_running, skip_duplicate_checks, walks, checkpoint,
                  page_index, consecutive_old_orders, checkpoint_reached,
                  most_recent_order_id, most_recent_order_date, new_orders_synced,
                  histVars, call, clock, errors, etlVars, laterVars >>

\* the while loop going round without line 466
EndOfPage_same_page ==
  /\ pc = "order"
  /\ idx > Len(orders_data)
  /\ page_index' = page_index
  /\ pc' = "page"
  /\ UNCHANGED << dbVars, apiVars, is_running, skip_duplicate_checks, walks, checkpoint,
                  orders_data, idx, consecutive_old_orders, checkpoint_reached,
                  most_recent_order_id, most_recent_order_date, new_orders_synced,
                  histVars, call, clock, errors, etlVars, laterVars >>

\* lines 309, 452-466: the for loop is exhausted
EndOfPage ==
  /\ pc = "order"
  /\ idx > Len(orders_data)
  /\ page_index' = page_index + 1
  /\ pc' = "page"
  /\ UNCHANGED << dbVars, apiVars, is_running, skip_duplicate_checks, walks, checkpoint,
                  orders_data, idx, consecutive_old_orders, checkpoint_reached,
                  most_recent_order_id, most_recent_order_date, new_orders_synced,
                  histVars, call, clock, errors, etlVars, laterVars >>

\* lines 310-311, 452-466: the for loop breaks on the cleared flag
BreakOnCancel ==
  /\ pc = "order"
  /\ idx <= Len(orders_data)
  /\ ~is_running
  /\ page_index' = page_index + 1
  /\ pc' = "page"
  /\ cancelSeen' = TRUE
  /\ walkClean' = FALSE
  /\ UNCHANGED << dbVars, apiVars, is_running, skip_duplicate_checks, walks, checkpoint,
                  orders_data, idx, consecutive_old_orders, checkpoint_reached,
                  most_recent_order_id, most_recent_order_date, new_orders_synced,
                  etl_ok, syncedInWalk, firstSeenNew, seen, summary, walkStart,
                  lastReturn, call, clock, errors, etlVars, laterVars >>

\* ------------------------------------------------ one order summary
\* the order summary the for loop is at, and its parsed CreationDate
order_id == orders_data[idx]
order_date == orderDate[order_id]

\* the counter counting old orders wherever the checkpoint order is
ReachedNow_always == TRUE

\* lines 322-325 (and 369-372): the checkpoint order has been seen
ReachedNow ==
  checkpoint_reached \/ (checkpoint.some /\ order_id = checkpoint.id)

\* lines 327-330: PRIMARY CHECK 1 lets the order through
PassesTrackerCheck ==
  skip_duplicate_checks \/ should_process_order(order_id, order_date, checkpoint)

\* the walk without the database check
PassesDatabaseCheck_none == TRUE

\* the database check made whatever the flag says
PassesDatabaseCheck_flagless ==
  ~(order_id \in orderTable \/ order_id \in factTable)

\* lines 359-364: PRIMARY CHECK 2 lets the order through
PassesDatabaseCheck ==
  skip_duplicate_checks \/ ~(order_id \in orderTable \/ order_id \in factTable)

\* the walk returning without the checkpoint update
FinalTracker_none == tracker

\* lines 344-350, 382-388, 475-481: the checkpoint update before a return
FinalTracker ==
  IF most_recent_order_id # NoneVal /\ most_recent_order_id # 0
     /\ new_orders_synced > 0
    THEN update_sync_checkpoint(tracker, most_recent_order_id,
                                most_recent_order_date, new_orders_synced)
    ELSE tracker

\* ------------------------------------------------ retry_with_backoff
\* the decorator arguments of _process_order (main.py line 187)
retries == 3
backoff_factor == 2

\* retry.py lines 29-55, the wrapper: raisesAt[i] tells whether the i-th
\* call of func raises inside the wrapper.  The result is the number of
\* calls of func made, the waits slept and whether the wrapper raised.
RECURSIVE wrapper_loop(_, _, _, _)
wrapper_loop(raisesAt, retry_count, wait_time, waits) ==
  IF retry_count < retries
    THEN IF ~raisesAt[retry_count + 1]
           THEN [calls |-> retry_count + 1, waits |-> waits, raised |-> FALSE]
           ELSE IF retry_count + 1 = retries
                  THEN [calls |-> retry_count + 1, waits |-> waits, raised |-> TRUE]
                  ELSE wrapper_loop(raisesAt, retry_count + 1,
                                    wait_time * backoff_factor,
                                    Append(waits, wait_time))
    ELSE [calls |-> retry_count, waits |-> waits, raised |-> FALSE]

wrapper(raisesAt) == wrapper_loop(raisesAt, 0, 1, << >>)

\* main.py line 188: _process_order is an async def, so the call made by
\* the wrapper builds a coroutine and returns it; nothing of the body runs
\* inside the wrapper's try, whatever the body does when it is awaited
coroutine_call == [i \in 1..retries |-> FALSE]

\* the number of times the body of _process_order is started for one
\* order summary: once per coroutine the wrapper returned to line 411
process_order_calls == wrapper(coroutine_call).calls

\* what a walk observes of the order summary it is at
NewerThanCheckpoint ==
  ~checkpoint.some
  \/ LexLess(checkpoint.date, checkpoint.id, order_date, order_id)

Observe(skipped, fetched, attempts, returned) ==
  /\ summary' = [id |-> order_id, skipped |-> skipped, fetched |-> fetched,
                 attempts |-> attempts, returned |-> returned,
                 new |-> NewerThanCheckpoint,
                 inOrderTable |-> order_id \in orderTable,
                 inFactTable |-> order_id \in factTable]
  /\ seen' = seen \cup {order_id}
  /\ firstSeenNew' = IF order_id \notin seen /\ NewerThanCheckpoint
                       THEN firstSeenNew \cup {order_id} ELSE firstSeenNew

\* the for loop without the test of the running flag
AtSummary_uncancelled ==
  /\ pc = "order"
  /\ idx <= Len(orders_data)

AtSummary ==
  /\ pc = "order"
  /\ idx <= Len(orders_data)
  /\ is_running

\* lines 331-354 and 365-392: the order is skipped as already processed;
\* the walk returns when the counter reaches the threshold
SkipBody ==
  LET c == IF ReachedNow THEN consecutive_old_orders + 1
           ELSE consecutive_old_orders
  IN /\ checkpoint_reached' = ReachedNow
     /\ consecutive_old_orders' = c
     /\ Observe(TRUE, FALSE, 0, "none")
     /\ IF ReachedNow /\ c >= stop_threshold
          THEN /\ tracker' = FinalTracker
               /\ pc' = "idle"
               /\ lastReturn' = "threshold"
               /\ idx' = idx
          ELSE /\ tracker' = tracker
               /\ pc' = pc
               /\ lastReturn' = lastReturn
               /\ idx' = idx + 1
     /\ UNCHANGED << orderTable, factTable, apiVars, is_running,
                     skip_duplicate_checks, walks, checkpoint, page_index, orders_data,
                     most_recent_order_id, most_recent_order_date,
                     new_orders_synced, etl_ok, syncedInWalk, walkStart,
                     walkClean, cancelSeen, call, clock, errors, etlVars, laterVars >>

SkipOldOrder ==
  /\ AtSummary
  /\ ~PassesTrackerCheck
  /\ SkipBody

SkipExistingOrder ==
  /\ AtSummary
  /\ PassesTrackerCheck
  /\ ~PassesDatabaseCheck
  /\ SkipBody

\* a failed order ending the for loop and the while loop
NextSummary_break ==
  /\ idx' = idx
  /\ pc' = "final"

\* lines 406 and 441, `continue`: the for loop goes on with the next summary
NextSummary ==
  /\ idx' = idx + 1
  /\ pc' = pc

\* lines 396-407: a new order whose detail fetch fails or returns an error code
FetchFails ==
  /\ AtSummary
  /\ PassesTrackerCheck
  /\ PassesDatabaseCheck
  /\ faults < MaxFaults
  /\ faults' = faults + 1
  /\ checkpoint_reached' = ReachedNow
  /\ consecutive_old_orders' = 0
  /\ Observe(FALSE, TRUE, 0, "none")
  /\ errors' = Append(errors, << "order", order_id >>)
  /\ NextSummary
  /\ walkClean' = FALSE
  /\ UNCHANGED << dbVars, api, orderDate, arrivals, is_running, skip_duplicate_checks, walks, checkpoint,
                  page_index, orders_data, most_recent_order_id,
                  most_recent_order_date, new_orders_synced, etl_ok, syncedInWalk,
                  walkStart, cancelSeen, lastReturn, call, clock, etlVars, laterVars >>

\* lines 409-411, 424-441 with _process_order lines 192-196, 226-228 and
\* OrderSyncService.sync_order_data lines 63-66: the operational sync raises
\* and is rolled back
SyncFails ==
  /\ AtSummary
  /\ PassesTrackerCheck
  /\ PassesDatabaseCheck
  /\ faults < MaxFaults
  /\ faults' = faults + 1
  /\ checkpoint_reached' = ReachedNow
  /\ consecutive_old_orders' = 0
  /\ Observe(FALSE, TRUE, process_order_calls, "raised")
  /\ errors' = Append(errors, << "order", order_id >>)
  /\ NextSummary
  /\ walkClean' = FALSE
  /\ UNCHANGED << dbVars, api, orderDate, arrivals, is_running, skip_duplicate_checks, walks, checkpoint,
                  page_index, orders_data, most_recent_order_id,
                  most_recent_order_date, new_orders_synced, etl_ok, syncedInWalk,
                  walkStart, cancelSeen, lastReturn, call, clock, etlVars, laterVars >>

\* lines 409-422 after _process_order returned without raising: the order
\* is counted and the most recent order is tracked
Counted(returned) ==
  /\ checkpoint_reached' = ReachedNow
  /\ consecutive_old_orders' = 0
  /\ Observe(FALSE, TRUE, process_order_calls, returned)
  /\ idx' = idx + 1
  /\ new_orders_synced' = new_orders_synced + 1
  /\ syncedInWalk' = syncedInWalk \cup {order_id}
  /\ IF most_recent_order_date = NoneVal \/ order_date > most_recent_order_date
       THEN /\ most_recent_order_id' = order_id
            /\ most_recent_order_date' = order_date
       ELSE UNCHANGED << most_recent_order_id, most_recent_order_date >>
  /\ UNCHANGED << tracker, api, orderDate, arrivals, is_running, skip_duplicate_checks, pc, walks,
                  checkpoint, page_index, orders_data, walkStart, cancelSeen,
                  lastReturn, call, clock, errors, etlVars, laterVars >>

\* _process_order running the ETL whatever the creation date
etl_is_run_always(creation_date) == TRUE

\* _process_order line 198: the ETL is run for an order created on or
\* after 2020-01-01
etl_is_run(creation_date) == ~(creation_date < Date2020)

\* _process_order lines 196-201: the operational sync commits, the order is
\* older than 2020-01-01, the ETL is not run and False is returned
ProcessOldOrder ==
  /\ AtSummary
  /\ PassesTrackerCheck
  /\ PassesDatabaseCheck
  /\ ~etl_is_run(order_date)
  /\ orderTable' = orderTable \cup {order_id}
  /\ Counted("False")
  /\ UNCHANGED << factTable, etl_ok, walkClean, faults >>

\* _process_order lines 196-224 with _process_etl lines 160-185: the
\* operational sync commits and the ETL is run.  The ETL either commits
\* ("ok"), fails before any commit ("early": no datetime key, or a step up to
\* the order fact raises) or fails after populate_fact_payments committed
\* the order fact ("late").  _process_order returns True in all three.
ProcessOrder ==
  /\ AtSummary
  /\ PassesTrackerCheck
  /\ PassesDatabaseCheck
  /\ etl_is_run(order_date)
  /\ orderTable' = orderTable \cup {order_id}
  /\ \E etl \in {"ok", "early", "late"} :
       /\ etl # "ok" => faults < MaxFaults
       /\ faults' = IF etl = "ok" THEN faults ELSE faults + 1
       /\ factTable' = IF etl = "early" THEN factTable
                       ELSE factTable \cup {order_id}
       /\ etl_ok' = IF etl = "ok" THEN etl_ok \cup {order_id} ELSE etl_ok
       /\ walkClean' = (walkClean /\ etl = "ok")
  /\ Counted("True")

\* lines 474-483: the loop has ended; update the checkpoint and return
FinishWalk ==
  /\ pc = "final"
  /\ tracker' = FinalTracker
  /\ pc' = "idle"
  /\ lastReturn' = "end"
  /\ UNCHANGED << orderTable, factTable, apiVars, is_running, skip_duplicate_checks,
                  localVars, etl_ok, syncedInWalk, firstSeenNew, seen, summary,
                  walkStart, walkClean, cancelSeen, call, clock, errors, etlVars, laterVars >>

Next ==
  \/ NewOrder
  \/ initiate_shutdown
  \/ Restart
  \/ StartWalk
  \/ WalkCancelled
  \/ PageError
  \/ PageNoData
  \/ PageEmpty
  \/ PageFetched
  \/ EndOfPage
  \/ BreakOnCancel
  \/ SkipOldOrder
  \/ SkipExistingOrder
  \/ FetchFails
  \/ SyncFails
  \/ ProcessOldOrder
  \/ ProcessOrder
  \/ FinishWalk

Spec == Init /\ [][Next]_vars

\* the steps of _process_restaurant_orders once it has been called
WalkNext ==
  \/ WalkCancelled
  \/ PageError
  \/ PageNoData
  \/ PageEmpty
  \/ PageFetched
  \/ EndOfPage
  \/ BreakOnCancel
  \/ SkipOldOrder
  \/ SkipExistingOrder
  \/ FetchFails
  \/ SyncFails
  \/ ProcessOldOrder
  \/ ProcessOrder
  \/ FinishWalk

\* The walk is a coroutine the event loop runs to its end: every await in
\* it (the API calls, asyncio.sleep) returns or raises, so a walk that can
\* take a step takes one
FairSpec == Spec /\ WF_vars(WalkNext)

TypeOK ==
  /\ tracker.exists \in BOOLEAN
  /\ orderTable \subseteq Ids
  /\ factTable \subseteq Ids
  /\ pc \in {"idle", "page", "order", "final"}
  /\ consecutive_old_orders \in 0..stop_threshold

\* ------------------------------------------- direct calls of the tracker
\* OrderTrackerServiceV2 called directly, with arbitrary arguments, on the
\* tracker row of one restaurant.
Args == 0..MaxArg

Checkpoints ==
  {NoCheckpoint} \cup {[some |-> TRUE, id |-> i, date |-> d] : i \in Args, d \in Args}

\* the page walk is not exercised: no order, no walk
SyncIdle ==
  /\ orderTable = {}
  /\ factTable = {}
  /\ api = << >>
  /\ orderDate = [i \in Ids |-> 0]
  /\ faults = 0
  /\ arrivals = 0
  /\ is_running = TRUE
  /\ skip_duplicate_checks = FALSE
  /\ pc = "idle"
  /\ walks = 0
  /\ checkpoint = NoCheckpoint
  /\ LocalsInit
  /\ etl_ok = {}
  /\ syncedInWalk = {}
  /\ firstSeenNew = {}
  /\ seen = {}
  /\ summary = NoSummary
  /\ walkStart = NoTracker
  /\ walkClean = TRUE
  /\ cancelSeen = FALSE
  /\ lastReturn = "none"
  /\ errors = << >>

InitTracker ==
  /\ tracker = NoTracker
  /\ call = NoCall
  /\ clock = 0
  /\ SyncIdle
  /\ EtlIdle
  /\ LaterIdle

walkVars == << orderTable, factTable, apiVars, is_running, skip_duplicate_checks,
               pc, localVars, histVars, errors >>

TrackerFrame ==
  UNCHANGED << walkVars, clock, etlVars, laterVars >>

\* time passes between two calls
Tick ==
  /\ clock < MaxClock
  /\ clock' = clock + 1
  /\ UNCHANGED << tracker, call, walkVars, etlVars, laterVars >>

\* get_sync_checkpoint(restaurant_id, restaurant_name)
CallGetCheckpoint ==
  /\ tracker' = get_sync_checkpoint_row(tracker)
  /\ call' = [NoCall EXCEPT !.op = "get", !.cp = get_sync_checkpoint(tracker),
                            !.before = tracker]
  /\ TrackerFrame

\* update_sync_checkpoint(restaurant_id, last_order_id, last_order_date, count)
CallUpdateCheckpoint ==
  /\ tracker.exists
  /\ \E i \in Args, d \in Args, n \in 0..2 :
       /\ tracker.total_orders_synced + n <= MaxTotal
       /\ tracker' = update_sync_checkpoint(tracker, i, d, n)
       /\ call' = [NoCall EXCEPT !.op = "update", !.id = i, !.date = d,
                                 !.count = n, !.before = tracker]
  /\ TrackerFrame

\* update_sync_checkpoint without a tracker row: NoResultFound is raised
CallUpdateNoTracker ==
  /\ ~tracker.exists
  /\ \E i \in Args, d \in Args :
       call' = [NoCall EXCEPT !.op = "update_raises", !.id = i, !.date = d,
                              !.before = tracker]
  /\ tracker' = tracker
  /\ TrackerFrame

\* should_process_order(order_id, order_date, checkpoint); the call reads
\* and changes nothing of the tracker, so one call directly after another
\* reaches nothing new
CallShouldProcess ==
  /\ call.op # "should"
  /\ \E i \in Args, d \in Args, cp \in Checkpoints :
       call' = [NoCall EXCEPT !.op = "should", !.id = i, !.date = d, !.cp = cp,
                              !.result = should_process_order(i, d, cp),
                              !.before = tracker]
  /\ tracker' = tracker
  /\ TrackerFrame

\* reset_checkpoint(restaurant_id)
CallResetCheckpoint ==
  /\ tracker' = reset_checkpoint(tracker)
  /\ call' = [NoCall EXCEPT !.op = "reset", !.before = tracker]
  /\ TrackerFrame

NextTracker ==
  \/ Tick
  \/ CallGetCheckpoint
  \/ CallUpdateCheckpoint
  \/ CallUpdateNoTracker
  \/ CallShouldProcess

TrackerSpec == InitTracker /\ [][NextTracker]_vars

\* the calls of a full re-sync (perform_full_resync, resync_restaurant.py):
\* the direct calls of the tracker with reset_checkpoint among them
NextReset ==
  \/ Tick
  \/ CallGetCheckpoint
  \/ CallUpdateCheckpoint
  \/ CallUpdateNoTracker
  \/ CallShouldProcess
  \/ CallResetCheckpoint

ResetSpec == InitTracker /\ [][NextReset]_vars

\* ================================================== the warehouse ETL
\* ETLOrchestrator.process_order_dimensions_and_facts
\* (src/src/services/etl_orchestration_service.py) with the services it
\* calls, for the orders of one restaurant and one customer, all created on
\* one calendar day.  `store` holds the committed rows and `session` the
\* rows the session sees (committed and pending): session.commit() makes
\* store equal to session, session.rollback() makes session equal to store.
\* Surrogate keys are identity values, drawn here from one counter, which a
\* rollback does not give back.  The unique constraints of the fact tables
\* are not relied upon: an insert of a second row for a business key would
\* be accepted.
RestaurantId == 1
CustomerId == 1
PaymentMethodId == 1
\* the datetime key of the day the orders are created on
Day == 1
Orders == 1..MaxOrders

\* the order has a Payment row (its id is the order's id)
HasPayment(o) == o % 2 = 1
\* the order has a promotion_id whose Promotion row exists
HasPromotion(o) == o % 3 = 0

\* OrderProcessingTracker.FACT_TYPES
CUSTOMER_METRICS == "customer_metrics"
RESTAURANT_METRICS == "restaurant_metrics"

\* the mapped attributes of the class DimRestaurant
DimRestaurantColumns ==
  {"restaurant_key", "restaurant_id", "restaurant_name", "company_id",
   "company_name", "is_active"}

\* --- ledger (OrderProcessingTracker)
LedgerRow(o, fact_type) == [order_id |-> o, fact_type |-> fact_type]

is_order_processed(s, o, fact_type) == LedgerRow(o, fact_type) \in s.ledger

\* get_unprocessed_orders returning every id it is given
get_unprocessed_orders_all(s, order_ids, fact_type) == order_ids

get_unprocessed_orders(s, order_ids, fact_type) ==
  {o \in order_ids : LedgerRow(o, fact_type) \notin s.ledger}

\* mark_orders_processed before its commit
mark_orders_processed(s, order_ids, fact_type) ==
  [s EXCEPT !.ledger = @ \cup {LedgerRow(o, fact_type) :
                                 o \in {x \in order_ids :
                                          ~is_order_processed(s, x, fact_type)}}]

\* --- dimensions
\* _get_restaurant_key: the key of the active row of the business id
get_restaurant_key(s, rid) ==
  LET rows == {r \in s.dimRestaurant : r.restaurant_id = rid /\ r.is_active}
  IN IF rows = {} THEN NoneVal ELSE (CHOOSE r \in rows : TRUE).restaurant_key

\* RestaurantDimensionService.update_restaurant_dimension, lines 18-22 and
\* RestaurantMetricsService._update_fact_table, lines 186-190: the filter
\* reads the class attribute DimRestaurant.is_current; reading an attribute
\* the class does not have raises AttributeError
current_restaurant_query_raises == "is_current" \notin DimRestaurantColumns

\* the is_current row of the customer
CurrentCustomer(s, cid) ==
  {r \in s.dimCustomer : r.customer_id = cid /\ r.is_current}

\* update_customer_dimension adding a current row at every call, the way a
\* Type-2 dimension that never expires a row would
update_customer_dimension_versioned(s, cid, full_name, total_orders, k) ==
  [s EXCEPT !.dimCustomer =
     @ \cup {[customer_key |-> k, customer_id |-> cid, is_current |-> TRUE,
              full_name |-> full_name, lifetime_order_count |-> total_orders]}]

\* CustomerDimensionService.update_customer_dimension before its commit:
\* the current row is updated in place, or a row is added
update_customer_dimension(s, cid, full_name, total_orders, k) ==
  IF CurrentCustomer(s, cid) # {}
    THEN LET e == CHOOSE r \in CurrentCustomer(s, cid) : TRUE
         IN [s EXCEPT !.dimCustomer =
               (@ \ {e}) \cup {[e EXCEPT !.full_name = full_name,
                                         !.lifetime_order_count = total_orders]}]
    ELSE [s EXCEPT !.dimCustomer =
            @ \cup {[customer_key |-> k, customer_id |-> cid, is_current |-> TRUE,
                     full_name |-> full_name,
                     lifetime_order_count |-> total_orders]}]

\* the rows of a payment method of a restaurant
PaymentMethodRows(s, mid, rid) ==
  {r \in s.dimPaymentMethod : r.payment_method_id = mid /\ r.restaurant_id = rid}

\* PaymentMethodDimensionService.update_payment_method_dimension: the row
\* of (payment_method_id, restaurant_id) is looked up and, if there is none,
\* added
update_payment_method_dimension(s, mid, rid, k) ==
  IF PaymentMethodRows(s, mid, rid) # {}
    THEN s
    ELSE [s EXCEPT !.dimPaymentMethod =
            @ \cup {[payment_method_key |-> k, payment_method_id |-> mid,
                     restaurant_id |-> rid]}]

\* --- facts (FactPopulationService)
OrderFact(s, o) == {r \in s.factOrders : r.order_id = o}
PaymentFact(s, p) == {r \in s.factPayments : r.payment_id = p}
CustomerMetricsFact(s, o) == {r \in s.factCustomerMetrics : r.order_id = o}

\* populate_fact_orders without the check of lines 21-27
populate_fact_orders_insert(s, o, ck, rk, k) ==
  [session |-> [s EXCEPT !.factOrders =
                  @ \cup {[order_key |-> k, order_id |-> o, restaurant_key |-> rk,
                           customer_key |-> ck]}],
   key |-> k, inserted |-> TRUE]

\* populate_fact_orders: the session afterwards and the key returned
populate_fact_orders(s, o, ck, rk, k) ==
  IF OrderFact(s, o) # {}
    THEN [session |-> s,
          key |-> (CHOOSE r \in OrderFact(s, o) : TRUE).order_key,
          inserted |-> FALSE]
    ELSE [session |-> [s EXCEPT !.factOrders =
                         @ \cup {[order_key |-> k, order_id |-> o,
                                  restaurant_key |-> rk, customer_key |-> ck]}],
          key |-> k, inserted |-> TRUE]

\* populate_fact_payments storing the payment's own key as order_key
populate_fact_payments_detached(s, p, ok, k) ==
  IF PaymentFact(s, p) # {}
    THEN [session |-> s, inserted |-> FALSE]
    ELSE [session |-> [s EXCEPT !.factPayments =
                         @ \cup {[payment_key |-> k, payment_id |-> p,
                                  order_key |-> k]}],
          inserted |-> TRUE]

\* populate_fact_payments: the session before the commit of line 99, and
\* whether a row was added (the commit is made only then)
populate_fact_payments(s, p, ok, k) ==
  IF PaymentFact(s, p) # {}
    THEN [session |-> s, inserted |-> FALSE]
    ELSE [session |-> [s EXCEPT !.factPayments =
                         @ \cup {[payment_key |-> k, payment_id |-> p,
                                  order_key |-> ok]}],
          inserted |-> TRUE]

\* populate_fact_customer_metrics without the check of lines 124-136
populate_fact_customer_metrics_insert(s, o, daily_orders, k) ==
  [session |-> [s EXCEPT !.factCustomerMetrics =
                  @ \cup {[metric_key |-> k, order_id |-> o,
                           daily_orders |-> daily_orders]}],
   inserted |-> TRUE]

\* populate_fact_customer_metrics before the commit of line 159: the row
\* of the order is overwritten, or a row is added
populate_fact_customer_metrics(s, o, daily_orders, k) ==
  IF CustomerMetricsFact(s, o) # {}
    THEN LET e == CHOOSE r \in CustomerMetricsFact(s, o) : TRUE
         IN [session |-> [s EXCEPT !.factCustomerMetrics =
                            (@ \ {e}) \cup {[e EXCEPT !.daily_orders = daily_orders]}],
             inserted |-> FALSE]
    ELSE [session |-> [s EXCEPT !.factCustomerMetrics =
                         @ \cup {[metric_key |-> k, order_id |-> o,
                                  daily_orders |-> daily_orders]}],
          inserted |-> TRUE]

\* --- restaurant daily metrics (RestaurantMetricsService)
\* lines 30-35: the orders of the restaurant created on the day
OrdersOfDay == opOrders

\* the daily rows of the restaurant for the day, whatever its dimension key
DayRows(s) ==
  {r \in s.factRestaurantMetrics :
     /\ r.datetime_key = Day
     /\ \E d \in s.dimRestaurant :
          d.restaurant_key = r.restaurant_key /\ d.restaurant_id = RestaurantId}

\* update_daily_metrics, lines 37-48: what the call does
\*   "none"  - no order on the day, return
\*   "skip"  - no unprocessed order, return
\*   "write" - compute the metrics and call _update_fact_table
daily_metrics_branch(s) ==
  IF OrdersOfDay = {} THEN "none"
  ELSE IF get_unprocessed_orders(s, OrdersOfDay, RESTAURANT_METRICS) = {}
    THEN "skip"
  ELSE "write"

\* --- process_order_dimensions_and_facts
SyncFrame == UNCHANGED << tracker, call, clock, walkVars, laterVars >>

\* the arguments line 147 passes to update_promotion_dimension and the
\* parameters promotion_dimension.py line 14 declares besides self
promotion_call_arguments == 2
update_promotion_dimension_parameters == 1

\* lines 200-204: the session is rolled back and the error propagates
Raised ==
  /\ session' = store
  /\ store' = store
  /\ ep' = "idle"
  /\ outcome' = "raised"
  /\ restaurant_key' = NoneVal
  /\ customer_key' = NoneVal
  /\ order_key' = NoneVal
  /\ UNCHANGED << nextKey, opOrders, restaurant_name, customer_name, cur, etlCalls, callStart >>

\* main.py lines 196 and 166-178: sync_order_data has committed the order
\* (and the restaurant's name, as the API sent it) to the operational
\* tables, and the ETL of the order is called
process_order_start ==
  /\ ep = "idle"
  /\ etlCalls < MaxEtlCalls
  /\ etlCalls' = etlCalls + 1
  /\ \E o \in Orders :
       /\ cur' = o
       /\ opOrders' = opOrders \cup {o}
  /\ \E n \in {restaurant_name, Min(restaurant_name + 1, MaxName)} :
       restaurant_name' = n
  /\ \E n \in {customer_name, Min(customer_name + 1, MaxName)} :
       customer_name' = n
  /\ ep' = "restaurant"
  /\ callStart' = store
  /\ outcome' = "running"
  /\ UNCHANGED << store, session, nextKey, restaurant_key, customer_key, order_key,
                  etlFaults >>
  /\ SyncFrame

\* lines 122-128: an active dimension row of the restaurant is found
ResolveRestaurantFound ==
  /\ ep = "restaurant"
  /\ get_restaurant_key(session, RestaurantId) # NoneVal
  /\ restaurant_key' = get_restaurant_key(session, RestaurantId)
  /\ ep' = "customer"
  /\ UNCHANGED << store, session, nextKey, opOrders, restaurant_name, customer_name, cur,
                  customer_key, order_key, etlCalls, etlFaults, callStart, outcome >>
  /\ SyncFrame

\* lines 129-130: no active row, update_restaurant_dimension is called and
\* its query raises
ResolveRestaurantRaises ==
  /\ ep = "restaurant"
  /\ get_restaurant_key(session, RestaurantId) = NoneVal
  /\ current_restaurant_query_raises
  /\ Raised
  /\ UNCHANGED etlFaults
  /\ SyncFrame

\* lines 136-140, _get_or_create_customer_key: the current row's key, or
\* update_customer_dimension adds the row and commits
ResolveCustomer ==
  /\ ep = "customer"
  /\ IF CurrentCustomer(session, CustomerId) # {}
       THEN /\ customer_key' =
                 (CHOOSE r \in CurrentCustomer(session, CustomerId) : TRUE).customer_key
            /\ UNCHANGED << store, session, nextKey >>
       ELSE /\ session' = update_customer_dimension(session, CustomerId, customer_name,
                                                    Cardinality(opOrders), nextKey)
            /\ store' = session'
            /\ nextKey' = nextKey + 1
            /\ customer_key' = nextKey
  /\ ep' = "promotion"
  /\ UNCHANGED << opOrders, restaurant_name, customer_name, cur, restaurant_key, order_key,
                  etlCalls, etlFaults, callStart, outcome >>
  /\ SyncFrame

\* lines 142-144: the order has no promotion
PromotionNone ==
  /\ ep = "promotion"
  /\ ~HasPromotion(cur)
  /\ ep' = "fact_orders"
  /\ UNCHANGED << store, session, nextKey, opOrders, restaurant_name, customer_name, cur,
                  restaurant_key, customer_key, order_key, etlCalls, etlFaults,
                  callStart, outcome >>
  /\ SyncFrame

\* lines 144-148: the order has a promotion; the call passes more positional
\* arguments than update_promotion_dimension takes, which raises TypeError
PromotionRaises ==
  /\ ep = "promotion"
  /\ HasPromotion(cur)
  /\ promotion_call_arguments # update_promotion_dimension_parameters
  /\ Raised
  /\ UNCHANGED etlFaults
  /\ SyncFrame

\* lines 150-160: populate_fact_orders
PopulateFactOrders ==
  /\ ep = "fact_orders"
  /\ LET r == populate_fact_orders(session, cur, customer_key, restaurant_key, nextKey)
     IN /\ session' = r.session
        /\ order_key' = r.key
        /\ nextKey' = IF r.inserted THEN nextKey + 1 ELSE nextKey
  /\ ep' = "payments"
  /\ UNCHANGED << store, opOrders, restaurant_name, customer_name, cur, restaurant_key,
                  customer_key, etlCalls, etlFaults, callStart, outcome >>
  /\ SyncFrame

\* lines 162-175: for each payment of the order the payment method
\* dimension and populate_fact_payments, which commits when it adds a row
ProcessPayments ==
  /\ ep = "payments"
  /\ IF ~HasPayment(cur)
       THEN UNCHANGED << store, session, nextKey >>
       ELSE LET s1 == update_payment_method_dimension(session, PaymentMethodId,
                                                      RestaurantId, nextKey)
                k1 == IF s1 = session THEN nextKey ELSE nextKey + 1
                r == populate_fact_payments(s1, cur, order_key, k1)
            IN /\ session' = r.session
               /\ store' = IF r.inserted THEN r.session ELSE store
               /\ nextKey' = IF r.inserted THEN k1 + 1 ELSE k1
  /\ ep' = "customer_metrics"
  /\ UNCHANGED << opOrders, restaurant_name, customer_name, cur, restaurant_key, customer_key,
                  order_key, etlCalls, etlFaults, callStart, outcome >>
  /\ SyncFrame

\* process_customer_metrics lines 218-224: the ledger has the order
CustomerMetricsSkip ==
  /\ ep = "customer_metrics"
  /\ is_order_processed(session, cur, CUSTOMER_METRICS)
  /\ ep' = "customer_dim"
  /\ UNCHANGED << store, session, nextKey, opOrders, restaurant_name, customer_name, cur,
                  restaurant_key, customer_key, order_key, etlCalls, etlFaults,
                  callStart, outcome >>
  /\ SyncFrame

\* process_customer_metrics lines 226-254: the metrics are computed from the
\* operational orders and populate_fact_customer_metrics commits them
CustomerMetricsWrite ==
  /\ ep = "customer_metrics"
  /\ ~is_order_processed(session, cur, CUSTOMER_METRICS)
  /\ LET r == populate_fact_customer_metrics(session, cur, Cardinality(opOrders),
                                             nextKey)
     IN /\ session' = r.session
        /\ store' = r.session
        /\ nextKey' = IF r.inserted THEN nextKey + 1 ELSE nextKey
  /\ ep' = "mark_customer_metrics"
  /\ UNCHANGED << opOrders, restaurant_name, customer_name, cur, restaurant_key, customer_key,
                  order_key, etlCalls, etlFaults, callStart, outcome >>
  /\ SyncFrame

\* process_customer_metrics lines 256-260: mark_orders_processed commits
MarkCustomerMetrics ==
  /\ ep = "mark_customer_metrics"
  /\ session' = mark_orders_processed(session, {cur}, CUSTOMER_METRICS)
  /\ store' = session'
  /\ ep' = "customer_dim"
  /\ UNCHANGED << nextKey, opOrders, restaurant_name, customer_name, cur, restaurant_key,
                  customer_key, order_key, etlCalls, etlFaults, callStart, outcome >>
  /\ SyncFrame

\* lines 181-185: update_customer_dimension recomputes the customer's row
\* and commits
UpdateCustomerDimension ==
  /\ ep = "customer_dim"
  /\ session' = update_customer_dimension(session, CustomerId, customer_name,
                                          Cardinality(opOrders), nextKey)
  /\ store' = session'
  /\ nextKey' = IF CurrentCustomer(session, CustomerId) # {} THEN nextKey
                ELSE nextKey + 1
  /\ ep' = "daily_metrics"
  /\ UNCHANGED << opOrders, restaurant_name, customer_name, cur, restaurant_key, customer_key,
                  order_key, etlCalls, etlFaults, callStart, outcome >>
  /\ SyncFrame

\* lines 187-192 with update_daily_metrics lines 37-48: nothing to do
DailyMetricsReturns ==
  /\ ep = "daily_metrics"
  /\ daily_metrics_branch(session) \in {"none", "skip"}
  /\ ep' = "commit"
  /\ UNCHANGED << store, session, nextKey, opOrders, restaurant_name, customer_name, cur,
                  restaurant_key, customer_key, order_key, etlCalls, etlFaults,
                  callStart, outcome >>
  /\ SyncFrame

\* lines 187-192 with update_daily_metrics lines 50-54 and 63-65: the
\* metrics are computed and the query of _update_fact_table raises
DailyMetricsRaises ==
  /\ ep = "daily_metrics"
  /\ daily_metrics_branch(session) = "write"
  /\ current_restaurant_query_raises
  /\ Raised
  /\ UNCHANGED etlFaults
  /\ SyncFrame

\* lines 194-196: the final commit
CommitEtl ==
  /\ ep = "commit"
  /\ store' = session
  /\ ep' = "idle"
  /\ outcome' = "committed"
  /\ restaurant_key' = NoneVal
  /\ customer_key' = NoneVal
  /\ order_key' = NoneVal
  /\ UNCHANGED << session, nextKey, opOrders, restaurant_name, customer_name, cur, etlCalls,
                  etlFaults, callStart >>
  /\ SyncFrame

\* a statement of the step the call is at fails in the database: the
\* service rolls back and raises, lines 200-204 roll back and raise
DatabaseError ==
  /\ ep # "idle"
  /\ etlFaults < MaxEtlFaults
  /\ etlFaults' = etlFaults + 1
  /\ Raised
  /\ SyncFrame

\* The warehouse a run starts on: empty; or holding the restaurant's
\* dimension row; or holding, besides, every row of order 1, processed by an
\* earlier deployment whose DimRestaurant still had the Type-2 columns.  A
\* warehouse that is not empty also holds the row of the same payment method
\* of another restaurant.
OtherPaymentMethod ==
  [payment_method_key |-> 8, payment_method_id |-> PaymentMethodId,
   restaurant_id |-> RestaurantId + 1]

SeededRestaurant ==
  [restaurant_key |-> 1, restaurant_id |-> RestaurantId, restaurant_name |-> 1,
   is_active |-> TRUE]

SeededStore ==
  [dimRestaurant |-> {SeededRestaurant},
   dimCustomer |-> {[customer_key |-> 2, customer_id |-> CustomerId,
                     is_current |-> TRUE, full_name |-> 1,
                     lifetime_order_count |-> 1]},
   dimPromotion |-> {},
   dimPaymentMethod |-> {[payment_method_key |-> 3,
                          payment_method_id |-> PaymentMethodId,
                          restaurant_id |-> RestaurantId],
                         OtherPaymentMethod},
   factOrders |-> {[order_key |-> 4, order_id |-> 1, restaurant_key |-> 1,
                    customer_key |-> 2]},
   factPayments |-> {[payment_key |-> 5, payment_id |-> 1, order_key |-> 4]},
   factCustomerMetrics |-> {[metric_key |-> 6, order_id |-> 1, daily_orders |-> 1]},
   ledger |-> {LedgerRow(1, CUSTOMER_METRICS), LedgerRow(1, RESTAURANT_METRICS)},
   factRestaurantMetrics |-> {[metric_key |-> 7, restaurant_key |-> 1,
                               datetime_key |-> Day, total_orders |-> 1]}]

InitEtl ==
  /\ tracker = NoTracker
  /\ call = NoCall
  /\ clock = 0
  /\ SyncIdle
  /\ \E w \in {"empty", "restaurant", "order1"} :
       /\ store = CASE w = "empty" -> EmptyStore
                    [] w = "restaurant" ->
                         [EmptyStore EXCEPT !.dimRestaurant = {SeededRestaurant},
                                            !.dimPaymentMethod = {OtherPaymentMethod}]
                    [] w = "order1" -> SeededStore
       /\ opOrders = IF w = "order1" THEN {1} ELSE {}
       /\ nextKey = 9
  /\ session = store
  /\ restaurant_name = 1
  /\ customer_name = 1
  /\ EtlLocalsIdle
  /\ etlCalls = 0
  /\ etlFaults = 0
  /\ callStart = store
  /\ outcome = "none"
  /\ LaterIdle

NextEtl ==
  \/ process_order_start
  \/ ResolveRestaurantFound
  \/ ResolveRestaurantRaises
  \/ ResolveCustomer
  \/ PromotionNone
  \/ PromotionRaises
  \/ PopulateFactOrders
  \/ ProcessPayments
  \/ CustomerMetricsSkip
  \/ CustomerMetricsWrite
  \/ MarkCustomerMetrics
  \/ UpdateCustomerDimension
  \/ DailyMetricsReturns
  \/ DailyMetricsRaises
  \/ CommitEtl
  \/ DatabaseError

EtlSpec == InitEtl /\ [][NextEtl]_vars

\* ================================================== the schedule window
\* ScheduleManager (src/src/services/schedule_manager.py).  An instant is a
\* weekday (datetime.weekday(): 0 Monday .. 6 Sunday), a day of the month
\* and a time of day; the members of the enum Day are their values 1..7.
\* the units of time in a day
DayLength == MaxTime + 1

Instants == [weekday : 0..6, day : 1..DaysInMonth, time : 0..MaxTime]

Schedules ==
  [start_time : 0..MaxTime, end_time : 0..MaxTime,
   active_days : {a \in SUBSET (1..7) : Cardinality(a) <= MaxActive}]

\* Day.from_datetime: list(Day)[dt.weekday()]
from_datetime(dt) == dt.weekday + 1

\* is_within_schedule with a half-open window
is_within_schedule_halfopen(sch, dt) ==
  IF from_datetime(dt) \notin sch.active_days THEN FALSE
  ELSE IF sch.start_time <= sch.end_time
    THEN sch.start_time <= dt.time /\ dt.time < sch.end_time
  ELSE dt.time >= sch.start_time \/ dt.time < sch.end_time

\* is_within_schedule, dt being datetime.now()
is_within_schedule(sch, dt) ==
  IF from_datetime(dt) \notin sch.active_days THEN FALSE
  ELSE IF sch.start_time <= sch.end_time
    THEN sch.start_time <= dt.time /\ dt.time <= sch.end_time
  ELSE dt.time >= sch.start_time \/ dt.time <= sch.end_time

\* the scan of the week looks at today and the seven days after it
scan_limit == 8

\* time_until_next_window, lines 76-88: the value of days_ahead when the
\* loop ends
RECURSIVE find_days_ahead(_, _, _, _)
find_days_ahead(sch, dt, days_ahead, test_day) ==
  IF days_ahead < scan_limit
    THEN IF /\ test_day \in sch.active_days
            /\ \/ days_ahead = 0 /\ dt.time < sch.start_time
               \/ days_ahead > 0
           THEN days_ahead
           ELSE find_days_ahead(sch, dt, days_ahead + 1, ((test_day - 1 + 1) % 7) + 1)
    ELSE days_ahead

Max(a, b) == IF a > b THEN a ELSE b

\* time_until_next_window: RuntimeError of line 91, ValueError of
\* datetime.replace when line 96 asks for a day the month does not have,
\* or the seconds of line 98
time_until_next_window(sch, dt) ==
  LET days_ahead == find_days_ahead(sch, dt, 0, from_datetime(dt))
  IN IF days_ahead >= scan_limit
       THEN [raises |-> "RuntimeError", result |-> 0]
     ELSE IF days_ahead > 0 /\ dt.day + days_ahead > DaysInMonth
       THEN [raises |-> "ValueError", result |-> 0]
     ELSE [raises |-> "none",
           result |-> Max(0, days_ahead * DayLength + sch.start_time - dt.time)]

\* the components other than the schedule manager
elseVars == << tracker, call, clock, walkVars, etlVars, runVars, segmentVars, gridVars, directVars >>

\* is_within_schedule() called at the instant now
CallIsWithinSchedule ==
  /\ schedCall' = [op |-> "is_within", raises |-> "none",
                   result |-> IF is_within_schedule(schedule, now) THEN 1 ELSE 0]
  /\ UNCHANGED << schedule, now, elseVars >>

\* time_until_next_window() called at the instant now
CallTimeUntilNextWindow ==
  /\ LET r == time_until_next_window(schedule, now)
     IN schedCall' = [op |-> "time_until", raises |-> r.raises, result |-> r.result]
  /\ UNCHANGED << schedule, now, elseVars >>

InitSchedule ==
  /\ tracker = NoTracker
  /\ call = NoCall
  /\ clock = 0
  /\ SyncIdle
  /\ EtlIdle
  /\ schedule \in Schedules
  /\ now \in Instants
  /\ schedCall = NoSchedCall
  /\ RunIdle
  /\ SegmentIdle
  /\ GridIdle
  /\ DirectIdle

NextSchedule ==
  \/ CallIsWithinSchedule
  \/ CallTimeUntilNextWindow

ScheduleSpec == InitSchedule /\ [][NextSchedule]_vars

\* ================================================== the main loop
\* OrderSyncApplication.run (src/main.py lines 608-671): the schedule gate
\* of the cycles.  Time passes while the coroutine is suspended: in
\* asyncio.sleep and in _process_restaurant, whose page walk is the
\* specification Spec.
Restaurants == 1..MaxRestaurants

\* the instant d units of time after dt
Advance(dt, d) ==
  LET total == dt.time + d
      days == total \div DayLength
  IN [weekday |-> (dt.weekday + days) % 7,
      day |-> ((dt.day - 1 + days) % DaysInMonth) + 1,
      time |-> total % DayLength]

\* lines 645-646 removed: the loop over the restaurants without its test
restaurant_gate_open(sch, dt) == TRUE

\* lines 645-646: the test made before each restaurant
restaurant_gate(sch, dt) == is_within_schedule(sch, dt)

RunFrame ==
  UNCHANGED << tracker, call, clock, walkVars, etlVars, schedule, schedCall,
               segmentVars, gridVars, directVars >>

\* lines 609-614, inside the window: the loop is entered at once
RunStartsWithin ==
  /\ run_pc = "startup"
  /\ is_within_schedule(schedule, now)
  /\ run_pc' = "while"
  /\ UNCHANGED << now, cycle_count, restaurant_index, runObs >>
  /\ RunFrame

\* lines 609-612, outside the window: an error of time_until_next_window
\* leaves run() through lines 673-675, otherwise the coroutine sleeps
\* min(wait_time, 3600) seconds
RunStartsOutside ==
  /\ run_pc = "startup"
  /\ ~is_within_schedule(schedule, now)
  /\ LET r == time_until_next_window(schedule, now)
     IN IF r.raises # "none"
          THEN run_pc' = "raised" /\ now' = now
          ELSE run_pc' = "while" /\ now' = Advance(now, Min(r.result, HourLength))
  /\ UNCHANGED << cycle_count, restaurant_index, runObs >>
  /\ RunFrame

\* line 618: the loop ends when is_running is cleared
RunExits ==
  /\ run_pc = "while"
  /\ ~is_running
  /\ run_pc' = "done"
  /\ UNCHANGED << now, cycle_count, restaurant_index, runObs >>
  /\ RunFrame

\* lines 625-632: a cycle that begins outside the window sleeps and
\* continues; an error of time_until_next_window is caught by line 664 and
\* the coroutine sleeps delay_on_error seconds
CycleOutside ==
  /\ run_pc = "while"
  /\ is_running
  /\ cycle_count < MaxCycles
  /\ ~is_within_schedule(schedule, now)
  /\ cycle_count' = cycle_count + 1
  /\ LET r == time_until_next_window(schedule, now)
     IN IF r.raises # "none"
          THEN \E d \in 1..MaxElapse : now' = Advance(now, d)
          ELSE now' = Advance(now, Min(r.result, HourLength))
  /\ runObs' = [outside |-> TRUE, started |-> 0, within |-> TRUE]
  /\ UNCHANGED << run_pc, restaurant_index >>
  /\ RunFrame

\* lines 625-641: a cycle that begins inside the window lists the
\* restaurants
CycleBegins ==
  /\ run_pc = "while"
  /\ is_running
  /\ cycle_count < MaxCycles
  /\ is_within_schedule(schedule, now)
  /\ cycle_count' = cycle_count + 1
  /\ restaurant_index' = 1
  /\ runObs' = [outside |-> FALSE, started |-> 0, within |-> TRUE]
  /\ run_pc' = "for"
  /\ now' = now
  /\ RunFrame

\* lines 650-662: the cycle ends; the coroutine sleeps polling_interval
\* seconds while the application is running
EndCycle ==
  /\ run_pc' = "while"
  /\ IF is_running
       THEN \E d \in 1..MaxElapse : now' = Advance(now, d)
       ELSE now' = now
  /\ UNCHANGED << cycle_count, restaurant_index, runObs >>
  /\ RunFrame

\* lines 642-643: break, the application is shutting down
ForBreaksOnShutdown ==
  /\ run_pc = "for"
  /\ restaurant_index \in Restaurants
  /\ ~is_running
  /\ EndCycle

\* lines 645-646: break, the window has closed
ForBreaksOutside ==
  /\ run_pc = "for"
  /\ restaurant_index \in Restaurants
  /\ is_running
  /\ ~restaurant_gate(schedule, now)
  /\ EndCycle

\* line 648: _process_restaurant is started and awaited; it catches its own
\* errors (lines 550-556)
ProcessRestaurant ==
  /\ run_pc = "for"
  /\ restaurant_index \in Restaurants
  /\ is_running
  /\ restaurant_gate(schedule, now)
  /\ runObs' = [runObs EXCEPT !.started = @ + 1,
                              !.within = @ /\ is_within_schedule(schedule, now)]
  /\ restaurant_index' = restaurant_index + 1
  /\ \E d \in 0..MaxElapse : now' = Advance(now, d)
  /\ UNCHANGED << run_pc, cycle_count >>
  /\ RunFrame

\* line 641: every restaurant of the list has been processed
ForEnds ==
  /\ run_pc = "for"
  /\ restaurant_index \notin Restaurants
  /\ EndCycle

\* the process is started on the first or the last day of a month
InitRun ==
  /\ tracker = NoTracker
  /\ call = NoCall
  /\ clock = 0
  /\ SyncIdle
  /\ EtlIdle
  /\ schedule \in Schedules
  /\ now \in {i \in Instants : i.day \in {1, DaysInMonth}}
  /\ schedCall = NoSchedCall
  /\ RunIdle
  /\ SegmentIdle
  /\ GridIdle
  /\ DirectIdle

NextRun ==
  \/ initiate_shutdown
  \/ RunStartsWithin
  \/ RunStartsOutside
  \/ RunExits
  \/ CycleOutside
  \/ CycleBegins
  \/ ForBreaksOnShutdown
  \/ ForBreaksOutside
  \/ ProcessRestaurant
  \/ ForEnds

RunSpec == InitRun /\ [][NextRun]_vars

\* ================================================== the customer segment
\* CustomerDimensionService._determine_customer_segment
\* (src/src/services/customer_dimension.py lines 97-111).  The average order
\* value is total_spent / total_orders, a float; it is counted here in
\* CentParts-th parts of a cent, an odd number of them, so that no value lies
\* midway between two cents.
CentParts == 2 * MaxHalfParts + 1

\* the thresholds of lines 104-108
vip_orders == 24
vip_value == 50
regular_orders == 12
occasional_orders == 3

\* 50 in parts of a cent
VipValueParts == vip_value * 100 * CentParts

\* round(x, 2): the nearest number of cents
round2(x) == (x + MaxHalfParts) \div CentParts

\* _determine_customer_segment with 'Occasional' from four orders on
determine_customer_segment_four(total_orders, avg_order_value) ==
  IF total_orders >= vip_orders /\ round2(avg_order_value) >= vip_value * 100
    THEN "VIP"
  ELSE IF total_orders >= regular_orders THEN "Regular"
  ELSE IF total_orders >= occasional_orders + 1 THEN "Occasional"
  ELSE "New"

\* _determine_customer_segment(metrics)
determine_customer_segment(total_orders, avg_order_value) ==
  IF total_orders >= vip_orders /\ round2(avg_order_value) >= vip_value * 100
    THEN "VIP"
  ELSE IF total_orders >= regular_orders THEN "Regular"
  ELSE IF total_orders >= occasional_orders THEN "Occasional"
  ELSE "New"

\* the metrics of a customer: the orders counted and their average value,
\* zero or within MaxAvgDelta parts of the VIP threshold
SegmentOrders == 0..MaxSegOrders
SegmentAverages ==
  {0} \cup ((VipValueParts - MaxAvgDelta)..(VipValueParts + MaxAvgDelta))

CallDetermineSegment ==
  /\ \E n \in SegmentOrders, a \in SegmentAverages :
       segCall' = [total_orders |-> n, avg_order_value |-> a,
                   result |-> determine_customer_segment(n, a)]
  /\ UNCHANGED << tracker, call, clock, walkVars, etlVars, scheduleVars, runVars,
                  gridVars, directVars >>

InitSegment ==
  /\ tracker = NoTracker
  /\ call = NoCall
  /\ clock = 0
  /\ SyncIdle
  /\ EtlIdle
  /\ ScheduleIdle
  /\ RunIdle
  /\ SegmentIdle
  /\ GridIdle
  /\ DirectIdle

NextSegment == CallDetermineSegment

SegmentSpec == InitSegment /\ [][NextSegment]_vars

\* ================================================================
\* The time grid: DateTimeDimensionService (datetime_dimension.py) and its
\* two callers, the start-up initialisation and the lookup of an order's
\* creation hour.  A row is [datetime_key, day, hour]; a datetime is
\* [day, hour, minute].

GridDays == 0 .. MaxGridDay

Datetimes == [day : GridDays, hour : 0 .. hours_per_day - 1, minute : 0 .. MaxMinute]

\* the order of datetimes
Stamp(dt) == (dt.day * hours_per_day + dt.hour) * (MaxMinute + 1) + dt.minute

\* dt.replace(minute=0, second=0, microsecond=0)
on_the_hour(dt) == [dt EXCEPT !.minute = 0]

\* dt.replace(minute=59, second=59, microsecond=999999)
end_of_hour(dt) == [dt EXCEPT !.minute = MaxMinute]

\* dt.replace(day=1, hour=0, minute=0, second=0, microsecond=0)
first_of_month(dt) ==
  [day |-> (dt.day \div MonthLength) * MonthLength, hour |-> 0, minute |-> 0]

\* dt + timedelta(days=n)
plus_days(dt, n) == [dt EXCEPT !.day = @ + n]

\* datetime(2020, 1, 1): the first day of the second month of the model
historical_start == [day |-> MonthLength, hour |-> 0, minute |-> 0]

\* the datetime of a row
datetime_of(r) == [day |-> r.day, hour |-> r.hour, minute |-> 0]

\* the rows with DimDateTime.datetime == dt
RowsAt(g, dt) == {r \in g : r.day = dt.day /\ r.hour = dt.hour}

\* func.min / func.max of DimDateTime.datetime over a grid with rows
earliest_date(g) ==
  datetime_of(CHOOSE r \in g : \A q \in g :
                r.day < q.day \/ (r.day = q.day /\ r.hour <= q.hour))

latest_date(g) ==
  datetime_of(CHOOSE r \in g : \A q \in g :
                r.day > q.day \/ (r.day = q.day /\ r.hour >= q.hour))

\* the days the while loop of generate_datetime_dimension visits:
\* current_date keeps the hour of start_date and runs while it is not after
\* the end of end_date's hour
visited_days(start_date, end_date) ==
  {d \in start_date.day .. end_date.day :
     Stamp([day |-> d, hour |-> start_date.hour, minute |-> 0])
       <= Stamp(end_of_hour(end_date))}

\* the hours of the visited days, each as day * hours_per_day + hour
visited_hours(start_date, end_date) ==
  {d * hours_per_day + h : d \in visited_days(start_date, end_date),
                           h \in 0 .. hours_per_day - 1}

\* the visited hours that pass the "if not exists" test
missing_hours(g, start_date, end_date) ==
  {i \in visited_hours(start_date, end_date) :
     RowsAt(g, [day |-> i \div hours_per_day, hour |-> i % hours_per_day]) = {}}

\* the saves of a generation that writes n rows: one per full batch and one
\* for the rest
batches_of(n) == (n + batch_size - 1) \div batch_size

\* what a generation over the visited hours does when the hours of todo are
\* to be written: in the order of the loop they get the keys from k on, and
\* when save fail_at fails only the batches before it are committed and the
\* call raises
save_batches(g, k, visited, todo, fail_at) ==
  LET fails == fail_at \in 1 .. batches_of(Cardinality(todo))
      saved == IF fails THEN (fail_at - 1) * batch_size ELSE Cardinality(todo)
      rank(i) == Cardinality({j \in todo : j < i})
  IN [grid |-> g \cup {[datetime_key |-> k + rank(i),
                        day |-> i \div hours_per_day,
                        hour |-> i % hours_per_day] :
                         i \in {j \in todo : rank(j) < saved}},
      key |-> k + saved,
      raised |-> fails,
      generated |-> saved,
      skipped |-> Cardinality(visited) - Cardinality(todo)]

\* generate_datetime_dimension writing every visited hour, without the
\* exists test
generate_datetime_dimension_blind(g, k, start_date, end_date, fail_at) ==
  save_batches(g, k, visited_hours(start_date, end_date),
               visited_hours(start_date, end_date), fail_at)

\* DateTimeDimensionService.generate_datetime_dimension on grid g with next
\* key k: the hours of the visited days that have no row are written
generate_datetime_dimension(g, k, start_date, end_date, fail_at) ==
  save_batches(g, k, visited_hours(start_date, end_date),
               missing_hours(g, start_date, end_date), fail_at)

\* no generation
not_generated(g, k) ==
  [grid |-> g, key |-> k, raised |-> FALSE, generated |-> 0, skipped |-> 0]

\* the query of get_datetime_key, lines 190-203: the key of dt's row, or None
datetime_key_of(g, dt) ==
  IF RowsAt(g, dt) = {} THEN NoneVal
  ELSE (CHOOSE r \in RowsAt(g, dt) : TRUE).datetime_key

\* DateTimeDimensionService.get_datetime_key, lines 173-188: the generation
\* it runs, if any, given the stored minimum and maximum
lookup_generation(g, k, dt, earliest, latest, fail_at) ==
  IF g # {} /\ Stamp(dt) < Stamp(earliest)
    THEN generate_datetime_dimension(g, k, first_of_month(dt), earliest, fail_at)
  ELSE IF g # {} /\ Stamp(dt) > Stamp(latest)
    THEN generate_datetime_dimension(g, k, latest, plus_days(dt, HorizonDays), fail_at)
  ELSE not_generated(g, k)

\* DateTimeDimensionService.get_datetime_key
get_datetime_key(g, k, dt, fail_at) ==
  IF dt = NoDatetime
    THEN [gen |-> not_generated(g, k), result |-> NoneVal]
  ELSE CHOOSE r \in {[gen |-> gen,
                       result |-> IF gen.raised THEN NoneVal
                                  ELSE datetime_key_of(gen.grid, on_the_hour(dt))] :
                      gen \in {lookup_generation(g, k, on_the_hour(dt), earliest_date(g),
                                                 latest_date(g), fail_at)}} : TRUE

\* ETLOrchestrator._initialize_datetime_dimension at current_date: an empty
\* grid is filled from historical_start to a year ahead; a grid with rows is
\* extended forward, then backward, where its range falls short.  fail_at
\* is the failing save of the first generation that runs.
initialize_datetime_dimension(g, k, current_date, fail_at) ==
  IF g = {}
    THEN generate_datetime_dimension(g, k, historical_start,
                                     plus_days(current_date, YearDays), fail_at)
  ELSE LET fwd == IF Stamp(latest_date(g)) < Stamp(plus_days(current_date, HorizonDays))
                    THEN generate_datetime_dimension(g, k, latest_date(g),
                                                     plus_days(current_date, YearDays), fail_at)
                    ELSE not_generated(g, k)
           bwd == IF Stamp(earliest_date(g)) > Stamp(historical_start)
                    THEN generate_datetime_dimension(fwd.grid, fwd.key, historical_start,
                                                     earliest_date(g),
                                                     IF fwd.generated + fwd.skipped = 0
                                                       THEN fail_at ELSE 0)
                    ELSE not_generated(fwd.grid, fwd.key)
       IN IF fwd.raised THEN fwd
          ELSE [bwd EXCEPT !.generated = @ + fwd.generated,
                           !.skipped = @ + fwd.skipped]

GridFrame ==
  UNCHANGED << tracker, call, clock, walkVars, etlVars, scheduleVars, runVars,
               segmentVars, directVars >>

\* In both actions a failing save is drawn only where the call has such a
\* save, and within the budget of failures.

\* datetime.now(): not before historical_start
CurrentDates == {dt \in Datetimes : dt.day >= historical_start.day}

\* the program starts: initialize_dimensions calls
\* _initialize_datetime_dimension
InitializeDatetimeDimension ==
  /\ \E current_date \in CurrentDates, fail_at \in 0 .. MaxBatches :
       /\ fail_at # 0 => gridFaults < MaxGridFaults
       /\ \E gen \in {initialize_datetime_dimension(grid, gridKey, current_date, fail_at)} :
          /\ fail_at # 0 => gen.raised
          /\ grid' = gen.grid
          /\ gridKey' = gen.key
          /\ gridFaults' = IF gen.raised THEN gridFaults + 1 ELSE gridFaults
          /\ gridCall' = [op |-> "initialize", dt |-> current_date,
                          raised |-> gen.raised, result |-> NoneVal,
                          generated |-> gen.generated, skipped |-> gen.skipped]
  /\ GridFrame

\* an order's creation date is looked up (main.py:166,
\* order_sync_manager.py:135)
GetDatetimeKey ==
  /\ \E dt \in Datetimes \cup {NoDatetime}, fail_at \in 0 .. MaxBatches :
       /\ fail_at # 0 => gridFaults < MaxGridFaults
       /\ \E r \in {get_datetime_key(grid, gridKey, dt, fail_at)} :
          /\ fail_at # 0 => r.gen.raised
          /\ grid' = r.gen.grid
          /\ gridKey' = r.gen.key
          /\ gridFaults' = IF r.gen.raised THEN gridFaults + 1 ELSE gridFaults
          /\ gridCall' = [op |-> "get_datetime_key", dt |-> dt,
                          raised |-> r.gen.raised, result |-> r.result,
                          generated |-> r.gen.generated, skipped |-> r.gen.skipped]
  /\ GridFrame

\* a fresh database: the grid has no row
InitGrid ==
  /\ tracker = NoTracker
  /\ call = NoCall
  /\ clock = 0
  /\ SyncIdle
  /\ EtlIdle
  /\ ScheduleIdle
  /\ RunIdle
  /\ SegmentIdle
  /\ GridIdle
  /\ DirectIdle

NextGrid ==
  \/ InitializeDatetimeDimension
  \/ GetDatetimeKey

GridSpec == InitGrid /\ [][NextGrid]_vars

\* ================================================================
\* The attributes of a grid row: DateTimeDimensionService.__init__ and
\* _create_datetime_record (datetime_dimension.py).  A datetime is taken as
\* [weekday, hour], weekday being dt.isoweekday().

\* self.business_hours
business_hours == [start |-> 6, end |-> 23]

\* self.day_parts, in the order of the dictionary
day_parts ==
  << [name |-> "breakfast", start |-> 6, end |-> 11],
     [name |-> "lunch", start |-> 11, end |-> 15],
     [name |-> "dinner", start |-> 15, end |-> 23] >>

\* self.peak_hours
peak_hours ==
  << [start |-> 7, end |-> 9],
     [start |-> 12, end |-> 14],
     [start |-> 18, end |-> 20] >>

\* _get_day_part with windows closed at both ends
get_day_part_closed(hour) ==
  LET hits == {n \in 1 .. Len(day_parts) :
                 day_parts[n].start <= hour /\ hour <= day_parts[n].end}
  IN IF hits = {} THEN "off_hours"
     ELSE day_parts[CHOOSE n \in hits : \A m \in hits : n <= m].name

\* DateTimeDimensionService._get_day_part: the first window that holds the
\* hour, or off_hours
get_day_part(hour) ==
  LET hits == {n \in 1 .. Len(day_parts) :
                 day_parts[n].start <= hour /\ hour < day_parts[n].end}
  IN IF hits = {} THEN "off_hours"
     ELSE day_parts[CHOOSE n \in hits : \A m \in hits : n <= m].name

\* DateTimeDimensionService._is_peak_hour
is_peak_hour(hour) ==
  \E n \in 1 .. Len(peak_hours) :
    peak_hours[n].start <= hour /\ hour < peak_hours[n].end

\* DateTimeDimensionService._is_business_hour
is_business_hour(hour) ==
  business_hours.start <= hour /\ hour < business_hours.end

\* the hours and the weekdays of a datetime
RecordHours == 0 .. 23

RecordWeekdays == 1 .. 7

\* DateTimeDimensionService._create_datetime_record, the attributes that
\* depend on the weekday and the hour
create_datetime_record(dt) ==
  [hour |-> dt.hour,
   day_of_week |-> dt.weekday,
   is_weekend |-> dt.weekday \in {5, 6, 7},
   day_part |-> get_day_part(dt.hour),
   is_peak_hour |-> is_peak_hour(dt.hour),
   is_business_hour |-> is_business_hour(dt.hour)]

\* a row is built for a datetime
CreateDatetimeRecord ==
  /\ \E weekday \in RecordWeekdays, hour \in RecordHours :
       gridCall' = [op |-> "create_datetime_record",
                    record |-> create_datetime_record([weekday |-> weekday,
                                                       hour |-> hour])]
  /\ UNCHANGED << grid, gridKey, gridFaults >>
  /\ GridFrame

NextRecord == CreateDatetimeRecord

RecordSpec == InitGrid /\ [][NextRecord]_vars

\* ================================================================
\* The processed-order ledger called directly: OrderProcessingTracker
\* (order_processing_tracker.py) on the table fact_processed_orders, which
\* has a surrogate primary key and no unique constraint on (order_id,
\* fact_type) (models.py lines 164-174).  The table is the sequence of its
\* rows in the order of their ids.

LedgerOrders == 1 .. MaxLedgerOrder

\* the fact types the program marks orders with
LedgerFactTypes == {CUSTOMER_METRICS, RESTAURANT_METRICS}

\* lists of order ids, repeated ids included
RECURSIVE ListsUpTo(_)
ListsUpTo(n) ==
  IF n = 0 THEN {<< >>}
  ELSE ListsUpTo(n - 1)
       \cup {Append(l, o) : l \in {x \in ListsUpTo(n - 1) : Len(x) = n - 1},
                            o \in LedgerOrders}

\* the rows a query of the session sees: the committed rows and the rows
\* added since, which the session flushes before it queries
query_rows(table, pending) == table \o pending

\* the rows of (order_id, fact_type) among rows
RowsOf(rows, o, fact_type) ==
  {n \in 1 .. Len(rows) : rows[n] = LedgerRow(o, fact_type)}

\* OrderProcessingTracker.is_order_processed on the rows the session sees
is_order_processed_rows(rows, o, fact_type) == RowsOf(rows, o, fact_type) # {}

\* the body of the loop adding a row whatever the ledger holds, without the
\* test of line 54
mark_order_untested(table, pending, o, fact_type) ==
  Append(pending, LedgerRow(o, fact_type))

\* OrderProcessingTracker.mark_orders_processed, lines 54-60, the body of
\* the loop: the rows added so far after the step for order o
mark_order(table, pending, o, fact_type) ==
  IF is_order_processed_rows(query_rows(table, pending), o, fact_type)
    THEN pending
    ELSE Append(pending, LedgerRow(o, fact_type))

\* OrderProcessingTracker.mark_orders_processed: the loop over the list,
\* pending holding the rows added so far, and the commit
RECURSIVE mark_orders_processed_rows(_, _, _, _)
mark_orders_processed_rows(table, pending, order_ids, fact_type) ==
  IF order_ids = << >> THEN query_rows(table, pending)
  ELSE mark_orders_processed_rows(
         table, mark_order(table, pending, Head(order_ids), fact_type),
         Tail(order_ids), fact_type)

DirectFrame ==
  UNCHANGED << tracker, call, clock, walkVars, etlVars, scheduleVars, runVars,
               segmentVars, gridVars >>

CallMarkOrdersProcessed ==
  /\ \E order_ids \in ListsUpTo(MaxListLen), fact_type \in LedgerFactTypes :
       /\ ledgerTable' = mark_orders_processed_rows(ledgerTable, << >>, order_ids, fact_type)
       /\ ledgerCall' = [op |-> "mark_orders_processed", order_ids |-> order_ids,
                         fact_type |-> fact_type, result |-> FALSE]
  /\ UNCHANGED rollupCall
  /\ DirectFrame

CallIsOrderProcessed ==
  /\ \E o \in LedgerOrders, fact_type \in LedgerFactTypes :
       ledgerCall' = [op |-> "is_order_processed", order_ids |-> << o >>,
                      fact_type |-> fact_type,
                      result |-> is_order_processed_rows(query_rows(ledgerTable, << >>),
                                                         o, fact_type)]
  /\ UNCHANGED << ledgerTable, rollupCall >>
  /\ DirectFrame

\* an empty ledger
InitLedger == InitGrid

NextLedger ==
  \/ CallMarkOrdersProcessed
  \/ CallIsOrderProcessed

LedgerSpec == InitLedger /\ [][NextLedger]_vars

\* ================================================================
\* The time-of-day buckets of the daily rollup: RestaurantMetricsService
\* (restaurant_metrics_service.py).  The orders of the day are given by the
\* hours of their creation dates.

\* self.day_parts of RestaurantMetricsService
metrics_day_parts ==
  [before_peak |-> << 6, 17 >>, peak |-> << 18, 20 >>, after_peak |-> << 21, 23 >>]

\* _count_orders_in_timeframe with the end hour included
count_orders_in_timeframe_closed(hours, start_hour, end_hour) ==
  Cardinality({n \in 1 .. Len(hours) : start_hour <= hours[n] /\ hours[n] <= end_hour})

\* RestaurantMetricsService._count_orders_in_timeframe
count_orders_in_timeframe(hours, start_hour, end_hour) ==
  Cardinality({n \in 1 .. Len(hours) : start_hour <= hours[n] /\ hours[n] < end_hour})

\* RestaurantMetricsService._calculate_daily_metrics: the order count and
\* the three buckets (all zero when there is no order)
calculate_daily_metrics(hours) ==
  [hours |-> hours,
   total_orders |-> Len(hours),
   before_peak_orders |->
     count_orders_in_timeframe(hours, metrics_day_parts.before_peak[1],
                               metrics_day_parts.before_peak[2]),
   peak_orders |->
     count_orders_in_timeframe(hours, metrics_day_parts.peak[1],
                               metrics_day_parts.peak[2]),
   after_peak_orders |->
     count_orders_in_timeframe(hours, metrics_day_parts.after_peak[1],
                               metrics_day_parts.after_peak[2])]

\* the hours of the orders of a day
RECURSIVE DayHours(_)
DayHours(n) ==
  IF n = 0 THEN {<< >>}
  ELSE DayHours(n - 1)
       \cup {Append(l, h) : l \in {x \in DayHours(n - 1) : Len(x) = n - 1},
                            h \in RecordHours}

\* the function reads and changes nothing but its argument, so one call
\* after another reaches nothing new
CallCalculateDailyMetrics ==
  /\ rollupCall = NoRollupCall
  /\ \E hours \in DayHours(MaxDayOrders) :
       rollupCall' = calculate_daily_metrics(hours)
  /\ UNCHANGED << ledgerTable, ledgerCall >>
  /\ DirectFrame

NextRollup == CallCalculateDailyMetrics

RollupSpec == InitGrid /\ [][NextRollup]_vars

\* ================================================== the order sync manager
\* OrderSyncManager.sync_restaurant_orders
\* (src/src/services/order_sync_manager.py lines 29-193): the page walk of
\* the manager, on the state of the walk of _process_restaurant_orders.  It
\* has no running flag, no checkpoint-reached flag and no database check.
ManagerFrame ==
  UNCHANGED << is_running, skip_duplicate_checks, checkpoint_reached, firstSeenNew,
               seen, summary, walkClean, cancelSeen, call, clock, etlVars, laterVars >>

\* lines 46-70: read the checkpoint, initialise the statistics and the locals
SyncStart ==
  /\ pc = "idle"
  /\ walks < MaxWalks
  /\ walks' = walks + 1
  /\ checkpoint' = get_sync_checkpoint(tracker)
  /\ tracker' = get_sync_checkpoint_row(tracker)
  /\ page_index' = 1
  /\ orders_data' = << >>
  /\ idx' = 1
  /\ consecutive_old_orders' = 0
  /\ most_recent_order_id' = NoneVal
  /\ most_recent_order_date' = NoneVal
  /\ new_orders_synced' = 0
  /\ syncedInWalk' = {}
  /\ walkStart' = tracker'
  /\ lastReturn' = "none"
  /\ errors' = << >>
  /\ pc' = "page"
  /\ UNCHANGED << orderTable, factTable, etl_ok, apiVars >>
  /\ ManagerFrame

\* lines 81, 173-177: get_orders_list raises
SyncPageError ==
  /\ pc = "page"
  /\ faults < MaxFaults
  /\ faults' = faults + 1
  /\ page_index' = page_index + 1
  /\ errors' = Append(errors, << "page", page_index >>)
  /\ UNCHANGED << dbVars, etl_ok, api, orderDate, arrivals, pc, walks, checkpoint,
                  orders_data, idx, consecutive_old_orders, most_recent_order_id,
                  most_recent_order_date, new_orders_synced, syncedInWalk,
                  walkStart, lastReturn >>
  /\ ManagerFrame

\* lines 83-91: a response without 'Data', or an empty page, ends the loop
SyncPageEnds ==
  /\ pc = "page"
  /\ \/ /\ faults < MaxFaults
        /\ faults' = faults + 1
     \/ /\ get_orders_list(page_index) = << >>
        /\ faults' = faults
  /\ pc' = "final"
  /\ UNCHANGED << dbVars, etl_ok, api, orderDate, arrivals, localVars, syncedInWalk,
                  walkStart, lastReturn, errors >>
  /\ ManagerFrame

\* lines 87-97: a page with orders
SyncPageFetched ==
  /\ pc = "page"
  /\ get_orders_list(page_index) # << >>
  /\ orders_data' = get_orders_list(page_index)
  /\ idx' = 1
  /\ pc' = "order"
  /\ UNCHANGED << dbVars, etl_ok, apiVars, walks, checkpoint, page_index,
                  consecutive_old_orders, most_recent_order_id,
                  most_recent_order_date, new_orders_synced, syncedInWalk,
                  walkStart, lastReturn, errors >>
  /\ ManagerFrame

\* lines 97, 160-171: the for loop is exhausted
SyncEndOfPage ==
  /\ pc = "order"
  /\ idx > Len(orders_data)
  /\ page_index' = page_index + 1
  /\ pc' = "page"
  /\ UNCHANGED << dbVars, etl_ok, apiVars, walks, checkpoint, orders_data, idx,
                  consecutive_old_orders, most_recent_order_id,
                  most_recent_order_date, new_orders_synced, syncedInWalk,
                  walkStart, lastReturn, errors >>
  /\ ManagerFrame

\* the threshold return with the checkpoint update of lines 180-187
threshold_return_tracker_updated == FinalTracker

\* lines 113-116: `return stats` at the threshold leaves the method before
\* the checkpoint update of lines 180-187
threshold_return_tracker == tracker

\* lines 107-117: the order is not newer than the checkpoint
SyncSkipOldOrder ==
  /\ pc = "order"
  /\ idx <= Len(orders_data)
  /\ ~should_process_order(order_id, order_date, checkpoint)
  /\ consecutive_old_orders' = consecutive_old_orders + 1
  /\ IF consecutive_old_orders + 1 >= stop_threshold
       THEN /\ tracker' = threshold_return_tracker
            /\ pc' = "idle"
            /\ lastReturn' = "threshold"
            /\ idx' = idx
       ELSE /\ tracker' = tracker
            /\ pc' = pc
            /\ lastReturn' = lastReturn
            /\ idx' = idx + 1
  /\ UNCHANGED << orderTable, factTable, etl_ok, apiVars, walks, checkpoint,
                  page_index, orders_data, most_recent_order_id,
                  most_recent_order_date, new_orders_synced, syncedInWalk,
                  walkStart, errors >>
  /\ ManagerFrame

\* lines 119-129 and 155-158: the detail fetch returns nothing, or the
\* operational sync or the ETL raises; the for loop goes on.  An ETL that
\* raises leaves the operational rows of the order committed, and the order
\* fact as well when it raises after populate_fact_payments.
SyncOrderFails ==
  /\ pc = "order"
  /\ idx <= Len(orders_data)
  /\ should_process_order(order_id, order_date, checkpoint)
  /\ faults < MaxFaults
  /\ faults' = faults + 1
  /\ consecutive_old_orders' = 0
  /\ \E stage \in {"fetch", "sync", "early", "late"} :
       /\ orderTable' = IF stage \in {"early", "late"}
                          THEN orderTable \cup {order_id} ELSE orderTable
       /\ factTable' = IF stage = "late"
                         THEN factTable \cup {order_id} ELSE factTable
  /\ errors' = Append(errors, << "order", order_id >>)
  /\ idx' = idx + 1
  /\ UNCHANGED << tracker, etl_ok, api, orderDate, arrivals, pc, walks, checkpoint,
                  page_index, orders_data, most_recent_order_id,
                  most_recent_order_date, new_orders_synced, syncedInWalk,
                  walkStart, lastReturn >>
  /\ ManagerFrame

\* lines 119-153: the order is fetched, synced, taken through the ETL when
\* its datetime key is found, counted and tracked as the most recent one
SyncOrder ==
  /\ pc = "order"
  /\ idx <= Len(orders_data)
  /\ should_process_order(order_id, order_date, checkpoint)
  /\ consecutive_old_orders' = 0
  /\ orderTable' = orderTable \cup {order_id}
  /\ \E datetime_key \in BOOLEAN :
       /\ factTable' = IF datetime_key THEN factTable \cup {order_id} ELSE factTable
       /\ etl_ok' = IF datetime_key THEN etl_ok \cup {order_id} ELSE etl_ok
  /\ new_orders_synced' = new_orders_synced + 1
  /\ syncedInWalk' = syncedInWalk \cup {order_id}
  /\ IF most_recent_order_date = NoneVal \/ order_date > most_recent_order_date
       THEN /\ most_recent_order_id' = order_id
            /\ most_recent_order_date' = order_date
       ELSE UNCHANGED << most_recent_order_id, most_recent_order_date >>
  /\ idx' = idx + 1
  /\ UNCHANGED << tracker, apiVars, pc, walks, checkpoint, page_index, orders_data,
                  walkStart, lastReturn, errors >>
  /\ ManagerFrame

\* lines 179-189: the loop has ended; update the checkpoint and return
SyncFinish ==
  /\ pc = "final"
  /\ tracker' = FinalTracker
  /\ pc' = "idle"
  /\ lastReturn' = "end"
  /\ UNCHANGED << orderTable, factTable, etl_ok, apiVars, localVars, syncedInWalk,
                  walkStart, errors >>
  /\ ManagerFrame

NextManager ==
  \/ NewOrder
  \/ SyncStart
  \/ SyncPageError
  \/ SyncPageEnds
  \/ SyncPageFetched
  \/ SyncEndOfPage
  \/ SyncSkipOldOrder
  \/ SyncOrderFails
  \/ SyncOrder
  \/ SyncFinish

ManagerSpec == Init /\ [][NextManager]_vars

\* ================================================================ claims
Range(q) == {q[i] : i \in 1..Len(q)}

\* o is the greatest order of S under lexicographic (date, id)
IsNewestOf(o, S) ==
  /\ o \in S
  /\ \A x \in S : LexLeq(orderDate[x], x, orderDate[o], o)

\* the listing is strictly descending under lexicographic (date, id)
ListedNewestFirst(q) ==
  \A i \in 1..(Len(q) - 1) :
    LexLess(orderDate[q[i + 1]], q[i + 1], orderDate[q[i]], q[i])

\* C1: over any sequence of update_sync_checkpoint calls (any arguments, any
\* order, duplicates included) the stored pair (last_order_date,
\* last_order_id) never takes a value lexicographically smaller than one it
\* held before: every step leaves the tracker row in place and its pair
\* greater or equal.
C1_MonotonicCheckpoint ==
  [][tracker.exists =>
       /\ tracker'.exists
       /\ LexLeq(tracker.last_order_date, tracker.last_order_id,
                 tracker'.last_order_date, tracker'.last_order_id)]_vars

\* an update with a pair below the stored one was called and changed nothing
C1_Witness ==
  /\ call.op = "update"
  /\ call.before.last_order_id > 0
  /\ LexLess(call.date, call.id,
             call.before.last_order_date, call.before.last_order_id)
  /\ tracker = call.before

\* C2: should_process_order returns True for every order when the checkpoint
\* is None; for a checkpoint (id0, date0) it returns True if and only if
\* date > date0, or date = date0 and id > id0.
C2_ShouldProcessCorrect ==
  call.op = "should" =>
    /\ ~call.cp.some => call.result
    /\ call.cp.some =>
         (call.result <=>
            (call.date > call.cp.date
             \/ (call.date = call.cp.date /\ call.id > call.cp.id)))

\* an order on the checkpoint's date with a greater id is processed
C2_Witness ==
  /\ call.op = "should"
  /\ call.cp.some
  /\ call.date = call.cp.date
  /\ call.id > call.cp.id
  /\ call.result

\* C3: with duplicate checks enabled no new order is silently missed.  An
\* order created in or after 2020 that was newer than the checkpoint when a
\* walk first saw it is, whenever no walk is in progress, either synced
\* (operational row and order fact row) or still eligible for the next walk:
\* newer than the stored checkpoint and in neither table.  An order that is
\* neither stays so for ever, since the pointer never decreases and rows are
\* never deleted, so it is not synced after any number of further walks.
C3_NoNewOrderMissed ==
  (pc = "idle" /\ ~skip_duplicate_checks) =>
    \A o \in firstSeenNew :
      orderDate[o] >= Date2020 =>
        \/ (o \in orderTable /\ o \in factTable)
        \/ /\ tracker.exists
           /\ LexLess(tracker.last_order_date, tracker.last_order_id,
                      orderDate[o], o)
           /\ o \notin orderTable
           /\ o \notin factTable

\* C4: with duplicate checks enabled, no order at or below the checkpoint
\* read at the start of the walk, and no order that already has a row in
\* the operational order table or in the order fact table, is fetched in
\* detail or passed to _process_order.
C4_NoReprocess ==
  (~skip_duplicate_checks /\ summary.fetched) =>
    /\ summary.new
    /\ ~summary.inOrderTable
    /\ ~summary.inFactTable

\* a later walk skipped an order that is newer than its checkpoint because
\* the order already has a row
C4_Witness ==
  /\ ~skip_duplicate_checks
  /\ walks = 2
  /\ summary.skipped
  /\ summary.new
  /\ summary.inOrderTable

\* C5: when a loop test of a walk found the running flag cleared before the
\* walk had reached every listed order, the stored checkpoint at the walk's
\* return equals its value when the walk began.
C5_CancelKeepsCheckpoint ==
  (pc = "idle" /\ lastReturn = "end" /\ cancelSeen
   /\ Range(api) \ seen # {}) =>
    /\ tracker.last_order_id = walkStart.last_order_id
    /\ tracker.last_order_date = walkStart.last_order_date

\* C6: an order (created in or after 2020) is counted in new_orders_synced,
\* and becomes the checkpoint, only if its whole processing succeeded: the
\* operational sync and every step of the ETL.
C6_CheckpointOnlyAfterSuccess ==
  /\ \A o \in syncedInWalk : orderDate[o] >= Date2020 => o \in etl_ok
  /\ (tracker.exists /\ tracker.last_order_id # SentinelId
      /\ tracker.last_order_date >= Date2020)
       => tracker.last_order_id \in etl_ok

\* C7: once the counter of consecutive old orders has reached ten the walk
\* has stopped, and if the walk synced at least one order the stored
\* checkpoint is the greatest (date, id) among the orders it synced.
C7_ThresholdStop ==
  /\ consecutive_old_orders >= stop_threshold =>
       (pc = "idle" /\ lastReturn = "threshold")
  /\ (pc = "idle" /\ lastReturn = "threshold" /\ syncedInWalk # {}) =>
       /\ IsNewestOf(tracker.last_order_id, syncedInWalk)
       /\ tracker.last_order_date = orderDate[tracker.last_order_id]

\* the walk handled one order summary in this step
SummaryStep ==
  /\ pc = "order"
  /\ pc' \in {"order", "idle"}
  /\ (idx' = idx + 1 \/ pc' = "idle")

\* C8: the consecutive-old counter is incremented only for a skipped order
\* summary seen after the checkpoint order's id has been observed in this
\* walk; a skipped order seen before that leaves it unchanged; an order that
\* passes the duplicate checks resets it to 0; the walk returns on the
\* threshold only after the checkpoint order has been seen.
C8_CounterDiscipline ==
  [][/\ SummaryStep =>
          /\ checkpoint_reached' <=>
               (checkpoint_reached
                \/ (checkpoint.some /\ summary'.id = checkpoint.id))
          /\ (summary'.skipped /\ checkpoint_reached') =>
               consecutive_old_orders' = consecutive_old_orders + 1
          /\ (summary'.skipped /\ ~checkpoint_reached') =>
               consecutive_old_orders' = consecutive_old_orders
          /\ ~summary'.skipped => consecutive_old_orders' = 0
          /\ pc' = "idle" =>
               (checkpoint_reached' /\ summary'.skipped
                /\ consecutive_old_orders' >= stop_threshold)
     /\ (~SummaryStep /\ consecutive_old_orders' # consecutive_old_orders) =>
          (pc = "idle" /\ consecutive_old_orders' = 0)]_vars

\* an old order was skipped before the checkpoint order was seen and left
\* the counter alone, after which the walk went on
C8_Witness ==
  /\ pc = "order"
  /\ summary.skipped
  /\ ~checkpoint_reached
  /\ checkpoint.some
  /\ checkpoint.id # SentinelId
  /\ consecutive_old_orders = 0

\* C9: first sync.  When no checkpoint exists, the API lists a fixed set of
\* orders newest first and nothing fails, then at the return of the walk
\* every listed order has been processed and the stored checkpoint is the
\* (id, date) of the newest listed order.
C9_FirstSync ==
  [][(/\ pc = "final"
      /\ pc' = "idle"
      /\ ~checkpoint.some
      /\ walkClean
      /\ api # << >>
      /\ ListedNewestFirst(api)) =>
       /\ \A o \in Range(api) :
            /\ o \in syncedInWalk'
            /\ o \in orderTable'
            /\ orderDate[o] >= Date2020 => (o \in factTable' /\ o \in etl_ok')
       /\ tracker'.last_order_id = Head(api)
       /\ tracker'.last_order_date = orderDate[Head(api)]]_vars

\* a first walk over two orders of different dates has returned
C9_Witness ==
  /\ pc = "idle"
  /\ lastReturn = "end"
  /\ ~checkpoint.some
  /\ walkClean
  /\ api = << 2, 1 >>
  /\ orderDate[2] > orderDate[1]
  /\ syncedInWalk = {1, 2}
  /\ tracker.last_order_id = 2

\* C10: get_sync_checkpoint returns None exactly when no tracker row exists
\* before the call, and then it creates the row with order id 0, date
\* 1900-01-01 and total 0; when a row exists it returns the stored
\* (last_order_id, last_order_date) and changes nothing.
C10_GetCheckpoint ==
  call.op = "get" =>
    /\ ~call.cp.some <=> ~call.before.exists
    /\ ~call.before.exists =>
         /\ tracker.exists
         /\ tracker.last_order_id = 0
         /\ tracker.last_order_date = SentinelDate
         /\ tracker.total_orders_synced = 0
    /\ call.before.exists =>
         /\ tracker = call.before
         /\ call.cp.id = call.before.last_order_id
         /\ call.cp.date = call.before.last_order_date

\* the call met an existing row whose pointer had been advanced
C10_Witness ==
  /\ call.op = "get"
  /\ call.before.exists
  /\ call.before.last_order_id > 0
  /\ call.cp.some

\* C11: update_sync_checkpoint on an existing row with a pair (date, id) not
\* strictly greater than the stored one raises nothing and leaves
\* last_order_id, last_order_date, last_sync_date and total_orders_synced as
\* they were; with a strictly greater pair it stores the pair and adds the
\* count to total_orders_synced.
C11_UpdateNoOp ==
  /\ call.op = "update_raises" => ~call.before.exists
  /\ call.op = "update" =>
       IF LexLess(call.before.last_order_date, call.before.last_order_id,
                  call.date, call.id)
         THEN /\ tracker.last_order_id = call.id
              /\ tracker.last_order_date = call.date
              /\ tracker.total_orders_synced
                   = call.before.total_orders_synced + call.count
         ELSE /\ tracker.last_order_id = call.before.last_order_id
              /\ tracker.last_order_date = call.before.last_order_date
              /\ tracker.last_sync_date = call.before.last_sync_date
              /\ tracker.total_orders_synced = call.before.total_orders_synced

\* a call with a positive count and a pair that is not greater, made at a
\* later time than the row's last stamp
C11_Witness ==
  /\ call.op = "update"
  /\ call.count > 0
  /\ call.before.last_order_id > 0
  /\ ~LexLess(call.before.last_order_date, call.before.last_order_id,
              call.date, call.id)
  /\ clock > call.before.last_sync_date

\* the walk is at an order summary whose detail fetch fails or whose
\* processing raises: a failure is produced and the order is not counted
FailedOrderStep ==
  /\ pc = "order"
  /\ faults' = faults + 1
  /\ new_orders_synced' = new_orders_synced

\* C14: when the detail fetch of an order fails or its processing raises, the
\* order is appended to the walk's error list, the walk stays in the for loop
\* of the page and goes on with the next order summary; nothing is returned
\* and the tracker row is left alone.
C14_OrderFailureContained ==
  [][FailedOrderStep =>
       /\ Len(errors') = Len(errors) + 1
       /\ errors'[Len(errors')][2] = orders_data[idx]
       /\ errors'[Len(errors')][1] = "order"
       /\ pc' = "order"
       /\ idx' = idx + 1
       /\ orders_data' = orders_data
       /\ page_index' = page_index
       /\ lastReturn' = lastReturn
       /\ tracker' = tracker]_vars

\* an order failed in the middle of a page and the next summary of the page
\* was evaluated and processed after it
C14_Witness ==
  /\ pc = "order"
  /\ Len(errors) = 1
  /\ summary.attempts > 0
  /\ idx > 2
  /\ summary.id # errors[1][2]
  /\ summary.id = orders_data[idx - 1]

\* C15: when the processing of an order (the detail fetch having succeeded)
\* raises to the page walk and the order is recorded as failed, 3 attempts
\* have been made for the order.
C15_ThreeAttempts ==
  [][(/\ pc = "order"
      /\ Len(errors') = Len(errors) + 1
      /\ summary'.attempts > 0)
       => summary'.attempts = retries]_vars

\* C16: after a page-level error at page index p the walk is still in the
\* while loop and the next page it fetches is page index p.
C16_PageRetried ==
  [][(pc = "page" /\ Len(errors') = Len(errors) + 1)
       => (pc' = "page" /\ page_index' = page_index)]_vars

\* the step is not one in which a database error was produced
NoFault == etlFaults' = etlFaults

C13_Atomic ==
  (ep = "idle" /\ outcome = "raised") => store = callStart

\* every order of the restaurant and day has a restaurant_metrics ledger entry
AllLedgered(s) ==
  \A o \in OrdersOfDay : LedgerRow(o, RESTAURANT_METRICS) \in s.ledger

\* C17: update_daily_metrics called when every order of the restaurant and
\* day has a restaurant_metrics ledger entry returns without writing; and
\* whenever the call returns normally, every order of that day has such an
\* entry.
C17_DailyMetricsGate ==
  /\ [][(ep = "daily_metrics" /\ NoFault /\ AllLedgered(session)) =>
          (ep' = "commit" /\ session' = session /\ store' = store)]_vars
  /\ [][(ep = "daily_metrics" /\ ep' = "commit") => AllLedgered(session')]_vars

\* the call returned on the ledger test, for a day that has orders
C17_Witness ==
  /\ ep = "commit"
  /\ OrdersOfDay # {}
  /\ AllLedgered(session)

\* C18: a recomputation for a day that already has a row (update_daily_metrics
\* run with an unprocessed order) leaves exactly one row of the day, holding
\* the recomputed measures.
C18_DailyRowUpserted ==
  [][(/\ ep = "daily_metrics"
      /\ NoFault
      /\ ~AllLedgered(session)
      /\ DayRows(session) # {})
       => /\ Cardinality(DayRows(session')) = 1
          /\ \A r \in DayRows(session') : r.total_orders = Cardinality(OrdersOfDay)]_vars

\* C19: at every moment there is at most one customer-metrics row per order
\* id; the customer-metrics step writes nothing when the ledger holds
\* (order, customer_metrics); and when the order already has a row, the step
\* overwrites that row's measures and adds no row.
C19_CustomerMetricsOnce ==
  /\ [](\A o \in Orders :
          /\ Cardinality(CustomerMetricsFact(session, o)) <= 1
          /\ Cardinality(CustomerMetricsFact(store, o)) <= 1)
  /\ [][(ep = "customer_metrics" /\ NoFault
         /\ LedgerRow(cur, CUSTOMER_METRICS) \in session.ledger) =>
          (session' = session /\ store' = store)]_vars
  /\ [][(ep = "customer_metrics" /\ NoFault
         /\ LedgerRow(cur, CUSTOMER_METRICS) \notin session.ledger
         /\ CustomerMetricsFact(session, cur) # {}) =>
          /\ {r.metric_key : r \in session'.factCustomerMetrics}
               = {r.metric_key : r \in session.factCustomerMetrics}
          /\ Cardinality(CustomerMetricsFact(session', cur)) = 1
          /\ \A r \in CustomerMetricsFact(session', cur) :
               r.daily_orders = Cardinality(opOrders)
          /\ store' = session']_vars

\* the step met a row of the order holding other measures and overwrote it
C19_Witness ==
  /\ ep = "mark_customer_metrics"
  /\ \E r \in CustomerMetricsFact(callStart, cur) :
       /\ r.daily_orders # Cardinality(opOrders)
       /\ \E q \in CustomerMetricsFact(store, cur) :
            q.metric_key = r.metric_key /\ q.daily_orders = Cardinality(opOrders)

\* the dimension rows of the restaurant business id
RestaurantRows(s) == {r \in s.dimRestaurant : r.restaurant_id = RestaurantId}

\* C20: the restaurant step of process_order ends with exactly one dimension
\* row of the business id, carrying the restaurant's name, and with its key:
\* a row is created when there was none, and when there was one its key is
\* returned and no row is added.
C20_RestaurantResolved ==
  [][(ep = "restaurant" /\ NoFault) =>
       /\ ep' = "customer"
       /\ Cardinality(RestaurantRows(session')) = 1
       /\ \A r \in RestaurantRows(session') :
            /\ r.restaurant_key = restaurant_key'
            /\ r.restaurant_name = restaurant_name
       /\ \A r \in RestaurantRows(session) : r.restaurant_key = restaurant_key']_vars

\* the times of day of the window of a schedule, as the claims describe it
WindowTimes(sch) ==
  IF sch.end_time < sch.start_time
    THEN (sch.start_time..MaxTime) \cup (0..sch.end_time)
    ELSE sch.start_time..sch.end_time

\* C24: is_within_schedule is true at an instant exactly when the instant's
\* weekday is an active day and its time of day lies in the closed window
\* [start_time, end_time], or, for a window that wraps midnight
\* (end_time < start_time), is at or after start_time or at or before
\* end_time.
C24_WithinSchedule ==
  schedCall.op = "is_within" =>
    (schedCall.result = 1 <=>
       /\ now.weekday + 1 \in schedule.active_days
       /\ now.time \in WindowTimes(schedule))

\* the call answered true at the last instant of a window that wraps midnight
C24_Witness ==
  /\ schedCall.op = "is_within"
  /\ schedCall.result = 1
  /\ schedule.end_time < schedule.start_time
  /\ now.time = schedule.end_time

\* the days ahead, among today and the seven days after it, that are
\* active, today only while its start time has not passed
ActiveAhead(sch, dt) ==
  {d \in 0..7 : /\ ((dt.weekday + d) % 7) + 1 \in sch.active_days
                /\ d = 0 => dt.time < sch.start_time}

\* C25: with at least one active day time_until_next_window returns the
\* exact time from now to start_time on the earliest active day among today
\* and the following seven days (today only if its start time has not
\* passed), on any day of the month; with no active day it raises the
\* RuntimeError.
C25_TimeUntilNextWindow ==
  schedCall.op = "time_until" =>
    IF schedule.active_days = {}
      THEN schedCall.raises = "RuntimeError"
      ELSE LET d == CHOOSE x \in ActiveAhead(schedule, now) :
                      \A y \in ActiveAhead(schedule, now) : x <= y
           IN /\ schedCall.raises = "none"
              /\ schedCall.result = d * DayLength + schedule.start_time - now.time

\* C26: the schedule window gates the pipeline.  No restaurant's sync is
\* started at an instant at which is_within_schedule is false; a cycle that
\* begins outside the window starts no restaurant and sleeps; and when the
\* window has closed between two restaurants the loop over the restaurants
\* is left without starting another one.
C26_ScheduleGates ==
  /\ [](runObs.outside => runObs.started = 0)
  /\ [][/\ runObs'.started > runObs.started => is_within_schedule(schedule, now)
        /\ (cycle_count' # cycle_count /\ ~is_within_schedule(schedule, now))
             => /\ run_pc' = "while"
                /\ now' # now
                /\ runObs'.outside
        /\ (run_pc = "for" /\ ~is_within_schedule(schedule, now))
             => /\ runObs'.started = runObs.started
                /\ restaurant_index' = restaurant_index
                /\ run_pc' \in {"for", "while"}
                /\ run_pc' = "for" => is_running /\ ~is_running']_vars

\* a cycle started a restaurant, the window closed while it was processed
\* and the cycle ended with a restaurant of the list not started
C26_Witness ==
  /\ run_pc = "while"
  /\ is_running
  /\ ~runObs.outside
  /\ runObs.started >= 1
  /\ runObs.started < MaxRestaurants

\* the segment the threshold table gives for n orders when `vip` tells
\* whether the average reaches the VIP value
TableSegment(n, vip) ==
  IF n >= 24 /\ vip THEN "VIP"
  ELSE IF n >= 12 THEN "Regular"
  ELSE IF n >= 3 THEN "Occasional"
  ELSE "New"

\* C23 as claimed: the segment is VIP iff orders >= 24 and the average
\* order value >= 50; otherwise Regular iff orders >= 12; otherwise
\* Occasional iff orders >= 3; otherwise New.
C23_SegmentTable ==
  segCall.result # "none" =>
    segCall.result =
      TableSegment(segCall.total_orders, segCall.avg_order_value >= VipValueParts)

\* C23 as amended: the same table, read with the average order value
\* rounded to two decimals.
C23_SegmentTableRounded ==
  segCall.result # "none" =>
    segCall.result =
      TableSegment(segCall.total_orders,
                   (segCall.avg_order_value + MaxHalfParts) \div CentParts >= 5000)

\* 24 orders of an average of exactly 50 are VIP
C23_Witness ==
  /\ segCall.total_orders = 24
  /\ segCall.avg_order_value = VipValueParts
  /\ segCall.result = "VIP"

\* C27: with skip_duplicate_checks set neither the checkpoint check nor the
\* database check is applied: every order summary the walk takes up is
\* fetched in detail and, unless the fetch or the sync fails, processed and
\* counted, whatever the checkpoint and whether or not the order is in the
\* order table or the order fact table.
C27_ChecksBypassed ==
  [][(skip_duplicate_checks /\ SummaryStep) =>
       /\ ~summary'.skipped
       /\ summary'.fetched
       /\ faults' = faults =>
            /\ summary'.attempts > 0
            /\ summary'.id \in syncedInWalk'
            /\ summary'.id \in orderTable']_vars

\* with the flag set an order that is not newer than the checkpoint and is
\* in both tables was fetched and processed again
C27_Witness ==
  /\ skip_duplicate_checks
  /\ summary.id # 0
  /\ ~summary.skipped
  /\ ~summary.new
  /\ summary.inOrderTable
  /\ summary.inFactTable
  /\ summary.attempts > 0
  /\ summary.id \in syncedInWalk

\* C21: customer dimension resolution is idempotent.  There is never more
\* than one current row of the customer, and once a resolution has returned
\* a key exactly one; the row keeps its surrogate key, which every
\* resolution returns; and an update of the dimension overwrites the row's
\* attributes and aggregates in place.
C21_CustomerResolved ==
  /\ [](/\ Cardinality(CurrentCustomer(session, CustomerId)) <= 1
        /\ Cardinality(CurrentCustomer(store, CustomerId)) <= 1
        /\ customer_key # NoneVal =>
             \E r \in CurrentCustomer(session, CustomerId) :
               r.customer_key = customer_key)
  /\ [][/\ \A r \in CurrentCustomer(session, CustomerId) :
             \E q \in CurrentCustomer(session', CustomerId) :
               q.customer_key = r.customer_key
        /\ (ep = "customer_dim" /\ ep' = "daily_metrics") =>
             /\ \E q \in CurrentCustomer(store', CustomerId) :
                  /\ q.full_name = customer_name
                  /\ q.lifetime_order_count = Cardinality(opOrders)
             /\ CurrentCustomer(session, CustomerId) # {} =>
                  Cardinality(session'.dimCustomer) = Cardinality(session.dimCustomer)]_vars

\* the row an earlier run created has been overwritten in place: it has its
\* key, the customer's new name and the new order count
C21_Witness ==
  /\ outcome = "raised"
  /\ \E r \in CurrentCustomer(store, CustomerId) :
       /\ r.customer_key = 2
       /\ r.full_name = 2
       /\ r.lifetime_order_count = 2

\* C22: promotion and payment-method rows are keyed by (business id,
\* restaurant).  Resolving the promotion of an order creates the row when
\* there is none and the call goes on with its key; resolving the payment
\* method of a payment leaves exactly one row of (payment method,
\* restaurant) and every row unchanged, whatever rows other restaurants have
\* for the same payment method.
C22_DimensionsKeyed ==
  [][/\ (ep = "promotion" /\ HasPromotion(cur) /\ NoFault) =>
          /\ ep' = "fact_orders"
          /\ session'.dimPromotion # {}
     /\ (ep = "payments" /\ HasPayment(cur) /\ NoFault) =>
          /\ Cardinality(PaymentMethodRows(session', PaymentMethodId, RestaurantId)) = 1
          /\ session.dimPaymentMethod \subseteq session'.dimPaymentMethod]_vars

\* the payment-method part of C22 alone
C22_PaymentMethodKeyed ==
  [][(ep = "payments" /\ HasPayment(cur) /\ NoFault) =>
          /\ Cardinality(PaymentMethodRows(session', PaymentMethodId, RestaurantId)) = 1
          /\ session.dimPaymentMethod \subseteq session'.dimPaymentMethod]_vars

\* the grid has rows and, between its minimum and its maximum, an hour
\* without a row
GridHasHole ==
  \E dt \in Datetimes :
    /\ grid # {}
    /\ RowsAt(grid, dt) = {}
    /\ Stamp(earliest_date(grid)) < Stamp(on_the_hour(dt))
    /\ Stamp(on_the_hour(dt)) < Stamp(latest_date(grid))

\* a step of the grid as C28 describes it
DeterministicLookup ==
  /\ (/\ gridCall'.op = "get_datetime_key"
      /\ gridCall'.dt # NoDatetime
      /\ ~gridCall'.raised
      /\ grid # {}) =>
       /\ gridCall'.result # NoneVal
       /\ \E r \in grid' :
            /\ r.datetime_key = gridCall'.result
            /\ datetime_of(r) = on_the_hour(gridCall'.dt)
       /\ (\/ Stamp(on_the_hour(gridCall'.dt)) < Stamp(earliest_date(grid))
           \/ Stamp(on_the_hour(gridCall'.dt)) > Stamp(latest_date(grid))) =>
            gridCall'.generated > 0
  /\ \A dt \in Datetimes :
       datetime_key_of(grid, dt) # NoneVal =>
         datetime_key_of(grid', dt) = datetime_key_of(grid, dt)

C28_ContiguousGrid == [][~GridHasHole => DeterministicLookup]_vars

\* C29: get_datetime_key(t) of a non-null t returns None only if the
\* generation fails: a call that does not raise returns a key.
C29_NoneOnlyOnFailure ==
  (/\ gridCall.op = "get_datetime_key"
   /\ gridCall.dt # NoDatetime
   /\ ~gridCall.raised) => gridCall.result # NoneVal

\* C30: the grid is append-only with unique timestamps.  No two rows have
\* the same hour or the same key, and every row stays as it is.
C30_GridAppendOnly ==
  /\ [](\A r, q \in grid :
          (datetime_of(r) = datetime_of(q) \/ r.datetime_key = q.datetime_key) => r = q)
  /\ [][grid \subseteq grid']_vars

\* a generation over a range that overlaps the grid: it skipped rows that
\* exist and wrote rows that were missing
C30_Witness ==
  /\ gridCall.op = "get_datetime_key"
  /\ gridCall.skipped > 0
  /\ gridCall.generated > 0
  /\ ~gridCall.raised

\* the day-part of an hour as the classification table gives it
TableDayPart(h) ==
  IF 6 <= h /\ h < 11 THEN "breakfast"
  ELSE IF 11 <= h /\ h < 15 THEN "lunch"
  ELSE IF 15 <= h /\ h < 23 THEN "dinner"
  ELSE "off_hours"

\* C33: every hour 0..23 has the day-part of the table (breakfast 6..10,
\* lunch 11..14, dinner 15..22, off_hours otherwise), is a business hour
\* exactly when 6 <= h < 23, and is a peak hour exactly when h is in
\* [7,9), [12,14) or [18,20).
C33_HourClassification ==
  gridCall.op = "create_datetime_record" =>
    LET h == gridCall.record.hour
    IN /\ gridCall.record.day_part = TableDayPart(h)
       /\ gridCall.record.is_business_hour = (6 <= h /\ h < 23)
       /\ gridCall.record.is_peak_hour = (h \in {7, 8, 12, 13, 18, 19})

\* the row of an hour where two windows meet: 11 is lunch, not breakfast
C33_Witness ==
  /\ gridCall.op = "create_datetime_record"
  /\ gridCall.record.hour = 11
  /\ gridCall.record.day_part = "lunch"
  /\ gridCall.record.is_business_hour
  /\ ~gridCall.record.is_peak_hour

C39_BucketsPartition ==
  LET counted == rollupCall.before_peak_orders + rollupCall.peak_orders
                 + rollupCall.after_peak_orders
      inHours == {n \in 1 .. Len(rollupCall.hours) :
                    6 <= rollupCall.hours[n] /\ rollupCall.hours[n] <= 23}
  IN /\ counted <= rollupCall.total_orders
     /\ counted >= Cardinality(inHours)
     /\ Cardinality(inHours) = rollupCall.total_orders =>
          counted = rollupCall.total_orders

\* the part of C39 that holds: no order is counted twice
C39_AtMostOneBucket ==
  rollupCall.before_peak_orders + rollupCall.peak_orders
    + rollupCall.after_peak_orders <= rollupCall.total_orders

\* every payment fact of s refers to the order fact of its order (the
\* payment of order o has payment_id o)
PaymentsReferToOrders(s) ==
  \A p \in s.factPayments :
    \E f \in s.factOrders :
      /\ f.order_key = p.order_key
      /\ f.order_id = p.payment_id

\* C34: in every state each payment fact's order_key is the key of the
\* order fact of the payment's order, in the session and among the committed
\* rows; and a payment fact is added only when the session holds the order
\* fact of its order.
C34_PaymentsReferToOrders ==
  /\ [](PaymentsReferToOrders(session) /\ PaymentsReferToOrders(store))
  /\ [][\A p \in session'.factPayments \ session.factPayments :
          \E f \in session.factOrders :
            f.order_id = p.payment_id /\ f.order_key = p.order_key]_vars

\* a call has committed the payment fact of an order it wrote the order
\* fact of
C34_Witness ==
  \E p \in store.factPayments \ callStart.factPayments :
    \E f \in store.factOrders \ callStart.factOrders :
      f.order_key = p.order_key /\ f.order_id = p.payment_id

\* the sentinel pointer as get_sync_checkpoint returns it
SentinelCheckpoint == [some |-> TRUE, id |-> SentinelId, date |-> SentinelDate]

\* what C37 says of a checkpoint a walk starts from: every order dated
\* after the sentinel date is to be processed, and only an order with the
\* sentinel id can be the checkpoint order
WalksFromTheStart(cp) ==
  /\ \A i \in Args, d \in Args :
       d > SentinelDate => should_process_order(i, d, cp)
  /\ \A i \in Args : (cp.some /\ i = cp.id) => i = SentinelId

\* a reset_checkpoint step as C37 describes it
ResetStep ==
  call'.op = "reset" =>
    /\ tracker'.last_order_id = SentinelId
    /\ tracker'.last_order_date = SentinelDate
    /\ tracker'.total_orders_synced = tracker.total_orders_synced

\* C37: reset_checkpoint sets the pointer to the sentinel and leaves
\* total_orders_synced unchanged; the get_sync_checkpoint that follows
\* returns the sentinel tuple, not None, so that the next walk processes
\* every order dated after the sentinel date and takes only an order with
\* id 0 for the checkpoint order.
C37_ResetCheckpoint ==
  [][/\ ResetStep
     /\ (call.op = "reset" /\ call'.op = "get") =>
          /\ call'.cp = SentinelCheckpoint
          /\ WalksFromTheStart(call'.cp)]_vars

\* C37 as it holds: the same for a restaurant that has a tracker row; for
\* one without a row reset_checkpoint writes nothing, and the
\* get_sync_checkpoint that follows creates the row and returns None, from
\* which the next walk processes every order as well.
C37_ResetExistingCheckpoint ==
  [][/\ ResetStep
     /\ (call'.op = "reset" /\ ~tracker.exists) => tracker' = tracker
     /\ (call.op = "reset" /\ call'.op = "get") =>
          /\ call'.cp = IF call.before.exists THEN SentinelCheckpoint
                        ELSE NoCheckpoint
          /\ WalksFromTheStart(call'.cp)]_vars

\* a row with a pointer and a count was reset, and the checkpoint was read
C37_Witness ==
  /\ call.op = "get"
  /\ call.cp = SentinelCheckpoint
  /\ tracker.total_orders_synced > 0
  /\ tracker.last_order_id = SentinelId

\* a step of the walk in which _process_order was called for the order at
\* hand
ProcessOrderStep ==
  /\ pc = "order"
  /\ idx <= Len(orders_data)
  /\ summary'.id = order_id
  /\ summary'.attempts > 0
  /\ idx' = idx + 1

\* C36: for an order created before 2020-01-01 _process_order writes the
\* operational records only: once the operational sync has committed no
\* ETL step is run, no dimension, fact or ledger row is created, and False
\* is returned without raising; the only exception that leaves
\* _process_order is the one of the operational sync, which writes nothing.
C36_OldOrderOperationalOnly ==
  [][(ProcessOrderStep /\ order_date < Date2020) =>
       /\ factTable' = factTable
       /\ etl_ok' = etl_ok
       /\ UNCHANGED << etlVars, directVars >>
       /\ IF summary'.returned = "raised"
            THEN orderTable' = orderTable
            ELSE /\ summary'.returned = "False"
                 /\ orderTable' = orderTable \cup {order_id}]_vars

\* an order older than 2020-01-01 was processed: it is in the operational
\* tables, in no fact table, and False was returned
C36_Witness ==
  /\ summary.returned = "False"
  /\ orderDate[summary.id] < Date2020
  /\ summary.id \in orderTable
  /\ summary.id \notin factTable
  /\ summary.id \notin etl_ok
  /\ new_orders_synced > 0

\* a step that fetches or processes an order, fetches a page or starts a
\* walk
DoesWork ==
  \/ summary' # summary
  \/ orderTable' # orderTable
  \/ factTable' # factTable
  \/ etl_ok' # etl_ok
  \/ new_orders_synced' # new_orders_synced
  \/ syncedInWalk' # syncedInWalk
  \/ seen' # seen
  \/ orders_data' # orders_data
  \/ faults' # faults
  \/ errors' # errors
  \/ idx' # idx
  \/ pc' = "order" /\ pc # "order"
  \/ walks' # walks

\* a step of the walk, as opposed to an order placed by a customer or a
\* start of the process
WalkStep == api' = api /\ is_running' = is_running

\* C32: once the running flag is cleared no further order is fetched or
\* processed, no further page is fetched and no further walk is started:
\* a step taken with the flag cleared does none of this work, and the loops
\* are left on the test of the flag.  The test and the unit of work it
\* guards are one step, so the order in progress when the flag is cleared
\* is the step already taken.
C32_CancellationHonoured ==
  [][~is_running =>
       /\ ~DoesWork
       /\ WalkStep =>
            /\ (pc = "order" /\ idx <= Len(orders_data)) =>
                 (pc' = "page" /\ cancelSeen')
            /\ pc = "page" => (pc' = "final" /\ cancelSeen')
            /\ pc = "idle" => pc' = "idle"]_vars

\* the flag was cleared inside a page: the walk has returned with orders of
\* the page left unprocessed
C32_Witness ==
  /\ ~is_running
  /\ cancelSeen
  /\ pc = "idle"
  /\ lastReturn = "end"
  /\ idx <= Len(orders_data)
  /\ orders_data[idx] \notin orderTable

\* the last index for which the API has answered with something else than
\* an empty or data-less page during the walk: a page of orders or an error
LastPage ==
  LET listed == (Len(api) + PageSize - 1) \div PageSize
      failed == {errors[i][2] : i \in {j \in 1..Len(errors) : errors[j][1] = "page"}}
  IN IF \A p \in failed : p <= listed THEN listed
     ELSE CHOOSE p \in failed : \A q \in failed : q <= p

\* the page index grows by one on every iteration of the while loop, and
\* only there
PageIndexAdvances ==
  /\ walks' = walks => page_index' >= page_index
  /\ (WalkStep /\ pc \in {"page", "order"} /\ pc' = "page") =>
       page_index' = page_index + 1
  /\ (pc = "page" /\ pc' = "order") => page_index' = page_index
  /\ (pc = "order" /\ pc' = "order") => page_index' = page_index

\* C38: the page index strictly increases on every iteration of the walk
\* loop; a page is fetched once per iteration, at the page index, so with
\* empty or data-less pages beyond index N the index never exceeds N + 1
\* and at most N + 1 pages are fetched; and a walk that has started returns.
C38_WalkTerminates ==
  /\ [](page_index <= LastPage + 1)
  /\ [][PageIndexAdvances]_vars
  /\ (pc # "idle") ~> (pc = "idle")

\* a walk has returned after an error page, pages of new and old orders and
\* the empty page that follows the last one
C38_Witness ==
  /\ pc = "idle"
  /\ lastReturn = "end"
  /\ ~cancelSeen
  /\ page_index = LastPage + 1
  /\ page_index > 2
  /\ new_orders_synced > 0
  /\ \E i \in 1..Len(errors) : errors[i][1] = "page"

\* C31: when sync_restaurant_orders stops because the consecutive-old
\* counter reaches the threshold after one or more orders were synced in
\* the walk, the checkpoint is at the most recent synced order when the
\* method has returned.
C31_CheckpointOnThreshold ==
  (pc = "idle" /\ lastReturn = "threshold" /\ new_orders_synced > 0) =>
    /\ tracker.last_order_id = most_recent_order_id
    /\ tracker.last_order_date = most_recent_order_date

====
